---- MODULE Spec2Model ----
(***************************************************************************)
(* Model of the comment-reply action of moltbook-daemon                    *)
(* (src/actions/comment_post.py) and of the reply hashing it uses          *)
(* (src/core/comment_reply_policy.py).                                     *)
(*                                                                         *)
(* Texts (reply bodies, comment ids, author ids and names) are sequences   *)
(* of one-character strings, so that strip(), lower() and the whitespace   *)
(* collapse of normalize_for_hash are computed and not assumed.  A SHA-256 *)
(* digest is modelled as an injective image of the digested text.  The     *)
(* five suffix literals are abbreviated to three characters each; like the *)
(* originals they start with one space, contain an upper-case letter and   *)
(* are pairwise different after normalisation.                             *)
(*                                                                         *)
(* One invocation of main() is split at its blocking points: Start (the    *)
(* set-up before the posts loop), BeginPost (one fetch of a post's         *)
(* comments and the computation of the pending list) or FetchFailed (the   *)
(* fetch raised), ProcessComment (one iteration of the pending loop,       *)
(* including its network call), EndPost (the per-post state update after   *)
(* the loop), then Finish (the final save) or Exit (the return without a   *)
(* save after a repeated authentication failure).  The state file is read  *)
(* by Start and written by Finish (and by Start when it has to resolve the *)
(* agent); the draft files are written to disk at once.                    *)
(*                                                                         *)
(* Spec runs up to MaxInv invocations over one state file, each on up to   *)
(* MaxPosts posts; SpecRun runs one invocation on up to RunPosts posts.    *)
(* The text generate_reply_text composes for a comment is an input, the    *)
(* reply field of the comment.  The agent id is known to every run.        *)
(***************************************************************************)
EXTENDS Integers, Sequences, FiniteSets, TLC

\* Python's None and the empty string: every test the model takes from the
\* code (not cid, author_id.strip(), author_name or "there", the parent id)
\* treats the two alike.
None == <<>>

\* ------------------------------------------------------------------ bounds
MaxInv == 2        \* invocations of the action in one behaviour of Spec
MaxPosts == 1      \* length of the list of posts of one invocation of Spec
RunPosts == 2      \* length of the list of posts of the invocation of SpecRun
MaxList == 2       \* length of one fetched comment list
MaxCap == 1        \* largest --max-replies value tried
MaxCalls == 2      \* calls of generate_reply_text with the same arguments
MaxRetries == 2    \* largest retries value of a client
MaxHops == 1       \* redirects followed within one request
MaxSync == 1       \* longest comment list get_comments.py fetches
MaxIter == 3       \* iterations of a daemon process
MaxNow == 3601     \* last second of the daemon's clock

\* ------------------------------------------------------------------- text
Space == {" ", "\t", "\n"}

lower_char(ch) ==
    CASE ch = "A" -> "a"
      [] ch = "B" -> "b"
      [] ch = "C" -> "c"
      [] ch = "H" -> "h"
      [] ch = "I" -> "i"
      [] ch = "M" -> "m"
      [] ch = "Q" -> "q"
      [] ch = "U" -> "u"
      [] ch = "Y" -> "y"
      [] OTHER -> ch

lower(s) == [i \in 1..Len(s) |-> lower_char(s[i])]

RECURSIVE lstrip(_)
lstrip(s) ==
    IF s = <<>> THEN s
    ELSE IF Head(s) \in Space THEN lstrip(Tail(s)) ELSE s

RECURSIVE rstrip(_)
rstrip(s) ==
    IF s = <<>> THEN s
    ELSE IF s[Len(s)] \in Space THEN rstrip(SubSeq(s, 1, Len(s) - 1)) ELSE s

strip(s) == rstrip(lstrip(s))

\* re.sub(r"\s+", " ", t)
RECURSIVE collapse_ws(_)
collapse_ws(s) ==
    IF s = <<>> THEN s
    ELSE IF Head(s) \in Space
         THEN <<" ">> \o collapse_ws(lstrip(s))
         ELSE <<Head(s)>> \o collapse_ws(Tail(s))

normalize_for_hash(text) == collapse_ws(lower(strip(text)))

\* hashlib.sha256(...).hexdigest(): an injective image of its argument
sha256_hexdigest(s) == <<"#">> \o s

reply_hash(text) == sha256_hexdigest(normalize_for_hash(text))

\* s[:n]
prefix(s, n) == SubSeq(s, 1, IF Len(s) < n THEN Len(s) ELSE n)

TagLen == 6

\* f" (ref {tag})" with tag = reply_hash(cid)[:6]
ref_tag(cid) == <<" ", "(">> \o prefix(reply_hash(cid), TagLen) \o <<")">>

\* Variant: ten suffixes, one for each attempt.
suffixes_ten ==
    << <<" ", "Q", "1">>,
       <<" ", "Q", "2">>,
       <<" ", "I", "3">>,
       <<" ", "I", "4">>,
       <<" ", "I", "5">>,
       <<" ", "Q", "6">>,
       <<" ", "Q", "7">>,
       <<" ", "I", "8">>,
       <<" ", "I", "9">>,
       <<" ", "I", "0">> >>

suffixes ==
    << <<" ", "Q", "1">>,
       <<" ", "Q", "2">>,
       <<" ", "I", "3">>,
       <<" ", "I", "4">>,
       <<" ", "I", "5">> >>

\* Variant: one suffix attempt more.
MaxAttempts_plus_one == 10 + 1

MaxAttempts == 10

\* ------------------------------------------------- uniqueness procedure
\* Variant: only the persisted sets are consulted.
collides_prior_only(h, S) ==
    \/ h \in S.ph
    \/ h \in S.pa
    \/ h \in S.pg

\* Variant: the persisted global set is not consulted.
collides_no_prior_global(h, S) ==
    \/ h \in S.ph
    \/ h \in S.rh
    \/ h \in S.pa
    \/ h \in S.ra
    \/ h \in S.rg

\* The six sets consulted by every check of main(): S.ph prior_hashes,
\* S.rh run_hashes, S.pa prior_hashes_author, S.ra
\* run_hashes_by_author[author_key], S.pg prior_hashes_global, S.rg
\* run_hashes_global.
collides(h, S) ==
    \/ h \in S.ph
    \/ h \in S.rh
    \/ h \in S.pa
    \/ h \in S.ra
    \/ h \in S.pg
    \/ h \in S.rg

\* Variant: each suffix is appended to the previous variant.
RECURSIVE suffix_loop_cumulative(_, _, _, _)
suffix_loop_cumulative(reply_text, S, attempt, tried) ==
    IF attempt > MaxAttempts
    THEN [found |-> FALSE, text |-> tried[1], tried |-> tried]
    ELSE LET suffix == suffixes[((attempt - 1) % Len(suffixes)) + 1]
             candidate == strip(reply_text \o suffix)
             h2 == reply_hash(candidate)
         IN  IF ~collides(h2, S)
             THEN [found |-> TRUE, text |-> candidate,
                   tried |-> Append(tried, candidate)]
             ELSE suffix_loop_cumulative(candidate, S, attempt + 1,
                                         Append(tried, candidate))

\* for attempt in range(1, 11): ...; tried records every text handed to
\* reply_hash, in order.
RECURSIVE suffix_loop(_, _, _, _)
suffix_loop(reply_text, S, attempt, tried) ==
    IF attempt > MaxAttempts
    THEN [found |-> FALSE, text |-> reply_text, tried |-> tried]
    ELSE LET suffix == suffixes[((attempt - 1) % Len(suffixes)) + 1]
             candidate == strip(reply_text \o suffix)
             h2 == reply_hash(candidate)
         IN  IF ~collides(h2, S)
             THEN [found |-> TRUE, text |-> candidate,
                   tried |-> Append(tried, candidate)]
             ELSE suffix_loop(reply_text, S, attempt + 1,
                              Append(tried, candidate))

\* Variant: the tag variant is taken without a check of its hash.
tag_step_unchecked(cid, S, r1, h1, first_ok) ==
    IF ~collides(h1, S)
    THEN [text |-> r1.text, h |-> h1, tried |-> r1.tried,
          status |-> IF first_ok THEN "unique_first_try"
                     ELSE "unique_after_suffix"]
    ELSE LET candidate == strip(r1.text \o ref_tag(cid))
         IN  [text |-> candidate, h |-> reply_hash(candidate),
              tried |-> Append(r1.tried, candidate),
              status |-> "unique_after_tag"]

\* lines 542-579: the tag attempt and the final check, given the result r1
\* of the first check and of the suffix loop (h1 is its hash).
tag_step(cid, S, r1, h1, first_ok) ==
    IF ~collides(h1, S)
    THEN [text |-> r1.text, h |-> h1, tried |-> r1.tried,
          status |-> IF first_ok THEN "unique_first_try"
                     ELSE "unique_after_suffix"]
    ELSE LET candidate == strip(r1.text \o ref_tag(cid))
             h2 == reply_hash(candidate)
         IN  IF ~collides(h2, S)
             THEN [text |-> candidate, h |-> h2,
                   tried |-> Append(r1.tried, candidate),
                   status |-> "unique_after_tag"]
             ELSE [text |-> r1.text, h |-> h1,
                   tried |-> Append(r1.tried, candidate),
                   status |-> "exhausted"]

\* Lines 507-579 of main(): first check, suffix loop, tag, final check.
\* status names the branch that produced the final text; tried lists the
\* texts handed to reply_hash.
ensure_unique(reply_text, cid, S) ==
    LET h0 == reply_hash(reply_text)
    IN  IF ~collides(h0, S)
        THEN tag_step(cid, S,
                      [found |-> FALSE, text |-> reply_text,
                       tried |-> <<reply_text>>],
                      h0, TRUE)
        ELSE LET r1 == suffix_loop(reply_text, S, 1, <<reply_text>>)
             IN  tag_step(cid, S, r1,
                          IF r1.found THEN reply_hash(r1.text) ELSE h0,
                          FALSE)

\* ------------------------------------------------------------ the data
Posts == {"p1", "p2"}
Cids == {<<"c">>, <<"C">>}

Me == <<"m">>
AgentAuthor == [id |-> Me, name |-> <<"M">>]
UserU == [id |-> <<"u">>, name |-> <<"B">>]
UserL == [id |-> None, name |-> <<"b">>]

\* What generate_reply_text returns for a comment (main() strips it).  T1
\* and T2 differ as texts and have the same normalised form; T3 differs
\* from both.
T1 == <<"H", "i", " ", "B">>
T2 == <<"h", "i", "\t", " ", "b">>
T3 == <<"Y", "o">>

\* A fetched comment: its id, its author object, its parent id and the
\* reply generate_reply_text composes for it.
Comment(id, author, parent, reply) ==
    [id |-> id, author |-> author, parent |-> parent, reply |-> reply]

\* The comments a fetch can return: three top-level comments of two users
\* (two ids that differ in case only, two authors, replies with equal and
\* with different hashes), the agent's own top-level comment, the agent's
\* reply to comment c, a user's reply to comment c, a comment without id.
Comments ==
    { Comment(<<"c">>, UserU, None, T1),
      Comment(<<"C">>, UserU, None, T3),
      Comment(<<"C">>, UserL, None, T2),
      Comment(<<"c">>, AgentAuthor, None, T3),
      Comment(None, AgentAuthor, <<"c">>, T1),
      Comment(<<"C">>, UserU, <<"c">>, T3),
      Comment(None, UserU, None, T1) }

RECURSIVE SeqsUpTo(_, _)
SeqsUpTo(S, n) ==
    IF n = 0 THEN {<<>>}
    ELSE LET shorter == SeqsUpTo(S, n - 1)
         IN  shorter \cup {Append(q, x) : q \in {r \in shorter : Len(r) = n - 1},
                                          x \in S}

Range(q) == {q[i] : i \in 1..Len(q)}

\* d.get(k, [])
Get(d, k) == IF k \in DOMAIN d THEN d[k] ELSE {}

\* d[k] = v
Put(d, k, v) == [x \in DOMAIN d \cup {k} |-> IF x = k THEN v ELSE d[x]]

\* _load_state of a missing file, after the setdefault calls of main()
EmptyState ==
    [agent |-> [id |-> None, name |-> None],
     responded |-> [p \in Posts |-> {}],
     post_hashes |-> [p \in Posts |-> {}],
     hashes |-> {},
     by_author |-> <<>>]

\* Variant: the name is not lowercased.
author_key_case_kept(a) ==
    LET author_name == IF a.name = None THEN <<"t", "h", "e", "r", "e">>
                       ELSE a.name
    IN  IF a.id # None /\ strip(a.id) # <<>>
        THEN strip(a.id)
        ELSE strip(author_name)

\* _comment_author, for the author key of lines 469-475
author_key(a) ==
    LET author_name == IF a.name = None THEN <<"t", "h", "e", "r", "e">>
                       ELSE a.name
    IN  IF a.id # None /\ strip(a.id) # <<>>
        THEN strip(a.id)
        ELSE lower(strip(author_name))

\* _parent_id
parent_id(c) == c.parent

\* _infer_responded_to
infer_responded_to(comments, my_agent_id) ==
    IF my_agent_id = None THEN {}
    ELSE {parent_id(comments[i]) :
            i \in {j \in 1..Len(comments) :
                     /\ comments[j].author.id = my_agent_id
                     /\ parent_id(comments[j]) # None}}

\* Variant: the responded ids are not consulted.
is_pending_unfiltered(c, my_agent_id, responded_ids) ==
    /\ c.id # None
    /\ ~(my_agent_id # None /\ c.author.id = my_agent_id)
    /\ parent_id(c) = None

\* lines 427-445: may the comment go to the pending list?
is_pending(c, my_agent_id, responded_ids) ==
    /\ c.id # None
    /\ ~(my_agent_id # None /\ c.author.id = my_agent_id)
    /\ parent_id(c) = None
    /\ c.id \notin responded_ids

pending_of(comments, my_agent_id, responded_ids) ==
    SelectSeq(comments, LAMBDA c : is_pending(c, my_agent_id, responded_ids))

\* ------------------------------------------------------ the reply policy
\* Character classes of the regular expressions of comment_reply_policy.py.
Digits == {"0", "1", "2", "3", "4", "5", "6", "7", "8", "9"}

\* [A-Za-z], for the letters of the texts of the model
Letters ==
    {"a", "b", "c", "d", "e", "f", "g", "h", "i", "j", "k", "l", "m", "n",
     "o", "p", "q", "r", "s", "t", "u", "v", "w", "x", "y", "z",
     "A", "B", "C", "H", "I", "M", "Q", "U", "Y"}

\* [A-Za-z0-9]
is_alnum(ch) == ch \in Letters \cup Digits

\* s[i:] starts with sub.
starts_at(s, i, sub) ==
    /\ i + Len(sub) - 1 <= Len(s)
    /\ \A k \in 1..Len(sub) : s[i + k - 1] = sub[k]

\* sub in s
contains(s, sub) == \E i \in 1..(Len(s) + 1) : starts_at(s, i, sub)

\* The end of the longest run of characters of the set cls that starts at
\* position i of s; i - 1 when s[i] is not in cls.
RECURSIVE run_end(_, _, _)
run_end(s, i, cls) ==
    IF i <= Len(s) /\ s[i] \in cls THEN run_end(s, i + 1, cls) ELSE i - 1

\* [A-Za-z0-9_\-]
WordChars == Letters \cup Digits \cup {"_", "-"}

\* \S, for the characters of the texts of the model
NonSpace == WordChars \cup {"?", ":", "/", ".", ",", "(", ")", "~", "#"}

LinkOmitted ==
    <<"(", "l", "i", "n", "k", " ", "o", "m", "i", "t", "t", "e", "d", ")">>

\* The length of the match of _URL_RE (https?://\S+, ignoring case) at
\* position i of s, 0 when there is none.
url_match(s, i) ==
    LET l == lower(s)
        scheme == IF starts_at(l, i, <<"h", "t", "t", "p", ":", "/", "/">>)
                  THEN 7
                  ELSE IF starts_at(l, i, <<"h", "t", "t", "p", "s", ":", "/", "/">>)
                  THEN 8 ELSE 0
        e == run_end(s, i + scheme, NonSpace)
    IN  IF scheme > 0 /\ e >= i + scheme THEN e - i + 1 ELSE 0

\* redact_urls: _URL_RE.sub("(link omitted)", text), from position i on.
RECURSIVE redact_from(_, _)
redact_from(s, i) ==
    IF i > Len(s) THEN <<>>
    ELSE LET n == url_match(s, i)
         IN  IF n > 0 THEN LinkOmitted \o redact_from(s, i + n)
             ELSE <<s[i]>> \o redact_from(s, i + 1)

redact_urls(text) == redact_from(text, 1)

\* The matches of _URL_RE in s, from position i on.
RECURSIVE urls_from(_, _)
urls_from(s, i) ==
    IF i > Len(s) THEN {}
    ELSE LET n == url_match(s, i)
         IN  IF n > 0 THEN {SubSeq(s, i, i + n - 1)} \cup urls_from(s, i + n)
             ELSE urls_from(s, i + 1)

\* _WORD_RE.findall(s), from position i on: [A-Za-z0-9][A-Za-z0-9_\-]{2,}
RECURSIVE findall_words(_, _)
findall_words(s, i) ==
    IF i > Len(s) THEN <<>>
    ELSE IF ~is_alnum(s[i]) THEN findall_words(s, i + 1)
    ELSE LET e == run_end(s, i, WordChars)
         IN  IF e - i + 1 >= 3
             THEN <<SubSeq(s, i, e)>> \o findall_words(s, e + 1)
             ELSE findall_words(s, i + 1)

\* str.isdigit on a non-empty token
isdigit(w) == \A k \in 1..Len(w) : w[k] \in Digits

\* the stoplist of extract_keywords
stop ==
    { <<"t", "h", "i", "s">>,
      <<"t", "h", "a", "t">>,
      <<"w", "i", "t", "h">>,
      <<"f", "r", "o", "m">>,
      <<"h", "a", "v", "e">>,
      <<"y", "o", "u", "r">>,
      <<"y", "o", "u", "r", "e">>,
      <<"a", "b", "o", "u", "t">>,
      <<"w", "h", "a", "t">>,
      <<"w", "h", "e", "n">>,
      <<"w", "h", "e", "r", "e">>,
      <<"w", "h", "i", "c", "h">>,
      <<"w", "o", "u", "l", "d">>,
      <<"c", "o", "u", "l", "d">>,
      <<"s", "h", "o", "u", "l", "d">>,
      <<"t", "h", "a", "n", "k", "s">>,
      <<"t", "h", "a", "n", "k">>,
      <<"n", "i", "c", "e">>,
      <<"c", "o", "o", "l">>,
      <<"g", "o", "o", "d">>,
      <<"g", "r", "e", "a", "t">>,
      <<"b", "a", "d">>,
      <<"l", "o", "l">>,
      <<"l", "m", "a", "o">> }

\* the banned list of extract_keywords
banned ==
    { <<"s", "t", "u", "p", "i", "d">>,
      <<"i", "d", "i", "o", "t">>,
      <<"t", "r", "a", "s", "h">>,
      <<"g", "a", "r", "b", "a", "g", "e">>,
      <<"w", "o", "r", "s", "t">>,
      <<"h", "a", "t", "e">>,
      <<"d", "u", "m", "b">>,
      <<"s", "h", "u", "t">>,
      <<"k", "y", "s">> }

\* Variant: the loop without the test against the banned list.
RECURSIVE keep_words_with_banned(_, _, _, _)
keep_words_with_banned(ws, i, uniq, max_words) ==
    IF i > Len(ws) THEN uniq
    ELSE LET w == ws[i]
         IN  IF \/ w \in stop
                \/ isdigit(w)
                \/ \E k \in 1..Len(uniq) : uniq[k] = w
             THEN keep_words_with_banned(ws, i + 1, uniq, max_words)
             ELSE IF Len(uniq) + 1 >= max_words THEN Append(uniq, w)
             ELSE keep_words_with_banned(ws, i + 1, Append(uniq, w), max_words)

\* The loop of extract_keywords over the words from position i on, uniq
\* being the keywords kept so far.
RECURSIVE keep_words(_, _, _, _)
keep_words(ws, i, uniq, max_words) ==
    IF i > Len(ws) THEN uniq
    ELSE LET w == ws[i]
         IN  IF \/ w \in stop
                \/ w \in banned
                \/ isdigit(w)
                \/ \E k \in 1..Len(uniq) : uniq[k] = w
             THEN keep_words(ws, i + 1, uniq, max_words)
             ELSE IF Len(uniq) + 1 >= max_words
                  THEN Append(uniq, w)
                  ELSE keep_words(ws, i + 1, Append(uniq, w), max_words)

\* words = [w.lower() for w in _WORD_RE.findall(cleaned)]
words_of(text) ==
    LET ws == findall_words(redact_urls(text), 1)
    IN  [k \in 1..Len(ws) |-> lower(ws[k])]

extract_keywords(text, max_words) ==
    IF text = <<>> THEN <<>>
    ELSE keep_words(words_of(text), 1, <<>>, max_words)

\* lines 142-152
question_markers ==
    << <<"?">>,
       <<"h", "o", "w", " ", "d", "o">>,
       <<"h", "o", "w", " ", "t", "o">>,
       <<"w", "h", "a", "t", " ", "i", "s">>,
       <<"w", "h", "y">>,
       <<"w", "h", "e", "r", "e">>,
       <<"h", "e", "l", "p">> >>

\* lines 156-168
bug_markers ==
    << <<"e", "r", "r", "o", "r">>,
       <<"e", "x", "c", "e", "p", "t", "i", "o", "n">>,
       <<"c", "r", "a", "s", "h">>,
       <<"b", "r", "o", "k", "e", "n">>,
       <<"d", "o", "e", "s", "n", "'", "t", " ", "w", "o", "r", "k">>,
       <<"d", "o", "e", "s", "n", "t", " ", "w", "o", "r", "k">>,
       <<"b", "u", "g">> >>

\* lines 171-184
praise_markers ==
    << <<"l", "o", "v", "e">>,
       <<"a", "w", "e", "s", "o", "m", "e">>,
       <<"g", "r", "e", "a", "t">>,
       <<"c", "o", "o", "l">>,
       <<"n", "i", "c", "e">>,
       <<"s", "i", "c", "k">>,
       <<"a", "m", "a", "z", "i", "n", "g">> >>

\* lines 187-191
hostile_markers ==
    << <<"s", "t", "u", "p", "i", "d">>,
       <<"i", "d", "i", "o", "t">>,
       <<"t", "r", "a", "s", "h">>,
       <<"g", "a", "r", "b", "a", "g", "e">>,
       <<"w", "o", "r", "s", "t">>,
       <<"h", "a", "t", "e">> >>

\* lines 194-198
feedback_markers ==
    << <<"s", "u", "g", "g", "e", "s", "t">>,
       <<"m", "a", "y", "b", "e">>,
       <<"c", "o", "n", "s", "i", "d", "e", "r">>,
       <<"w", "o", "u", "l", "d", " ", "b", "e", " ", "n", "i", "c", "e">>,
       <<"f", "e", "a", "t", "u", "r", "e">> >>

\* any(x in t for x in markers)
any_in(t, markers) == \E k \in 1..Len(markers) : contains(t, markers[k])

\* Variant: hostility is tested before praise.
classify_intent_hostile_first(text) ==
    LET t == lower(text)
    IN  IF strip(t) = <<>> THEN "empty"
        ELSE IF any_in(t, question_markers) THEN "question"
        ELSE IF any_in(t, bug_markers) THEN "bug"
        ELSE IF any_in(t, hostile_markers) THEN "hostile"
        ELSE IF any_in(t, praise_markers) THEN "praise"
        ELSE IF any_in(t, feedback_markers) THEN "feedback"
        ELSE "neutral"

classify_intent(text) ==
    LET t == lower(text)
    IN  IF strip(t) = <<>> THEN "empty"
        ELSE IF any_in(t, question_markers) THEN "question"
        ELSE IF any_in(t, bug_markers) THEN "bug"
        ELSE IF any_in(t, praise_markers) THEN "praise"
        ELSE IF any_in(t, hostile_markers) THEN "hostile"
        ELSE IF any_in(t, feedback_markers) THEN "feedback"
        ELSE "neutral"

\* Variant: an intent without a tone of its own is returned as the tone.
choose_tone_passing(intent) ==
    CASE intent = "hostile" -> "calm"
      [] intent = "bug" -> "helpful"
      [] intent = "question" -> "helpful"
      [] intent = "praise" -> "warm"
      [] intent = "feedback" -> "builder"
      [] OTHER -> intent

choose_tone(intent) ==
    CASE intent = "hostile" -> "calm"
      [] intent = "bug" -> "helpful"
      [] intent = "question" -> "helpful"
      [] intent = "praise" -> "warm"
      [] intent = "feedback" -> "builder"
      [] OTHER -> "neutral"

\* The intents choose_tone is called with: those classify_intent returns
\* and two strings that are none of them.
ToneInputs ==
    {"empty", "question", "bug", "praise", "hostile", "feedback", "neutral",
     "angry", ""}

\* The characters of the texts of the model, in a fixed order: the
\* stand-in for the byte values a digest is computed from.
CharSeq ==
    << "a", "b", "c", "d", "e", "f", "g", "h", "i", "j", "k", "l", "m", "n",
       "o", "p", "q", "r", "s", "t", "u", "v", "w", "x", "y", "z",
       "A", "B", "C", "H", "I", "M", "Q", "U", "Y",
       "0", "1", "2", "3", "4", "5", "6", "7", "8", "9",
       " ", "\t", "\n", "_", "-", "?", ":", "/", ".", ",", "(", ")", "~",
       "#", "'" >>

code(ch) == CHOOSE i \in 1..Len(CharSeq) : CharSeq[i] = ch

\* int(h[:n], 16) for a digest h: the digest being modelled by an image of
\* the digested text, the integer is computed from all of the image.
RECURSIVE hex_int(_)
hex_int(h) ==
    IF h = <<>> THEN 0 ELSE Len(h) * code(h[Len(h)]) + hex_int(SubSeq(h, 1, Len(h) - 1))

\* _stable_pick
stable_pick(options, seed) ==
    IF options = <<>> THEN <<>>
    ELSE options[(hex_int(sha256_hexdigest(seed)) % Len(options)) + 1]

\* " ".join(p for p in parts if p)
RECURSIVE join_parts(_)
join_parts(parts) ==
    IF parts = <<>> THEN <<>>
    ELSE LET rest == join_parts(Tail(parts))
         IN  IF Head(parts) = <<>> THEN rest
             ELSE IF rest = <<>> THEN Head(parts)
             ELSE Head(parts) \o <<" ">> \o rest

CatGame == <<"C", "a", "t", "G", "a", "m", "e">>

\* _project_name: the directory's name, or CatGame
project_name(project_dir) ==
    IF project_dir = None \/ project_dir.name = <<>> THEN CatGame
    ELSE project_dir.name

\* Variant: every persona allows dry humor.
persona_allows_anything(persona_text) == TRUE

\* _persona_allows_dry_humor
persona_allows_dry_humor(persona_text) ==
    contains(lower(persona_text),
             <<"d", "r", "y", " ", "h", "u", "m", "o", "r">>)

\* The reply templates of generate_reply_text.  A backquote of the source
\* is written ~ here.  The literals are
\* abbreviated; like the originals they contain no banned word and no URL,
\* and the two options of a slot differ.
openers(tone, a, project) ==
    CASE tone = "warm" ->
        << <<"T", "h", "x", " ">> \o a \o <<" ", "-", " ", "c", "h", "e", "c", "k", "i", "n", "g", " ">> \o project \o <<".">>,
           <<"H", "e", "y", " ">> \o a \o <<",", " ", "f", "o", "l", "l", "o", "w", "i", "n", "g", " ">> \o project \o <<".">> >>
      [] tone = "helpful" ->
        << <<"G", "o", "o", "d", " ", "c", "a", "l", "l", "o", "u", "t", ",", " ">> \o a \o <<".">>,
           <<"T", "h", "x", " ">> \o a \o <<" ", "-", " ", "s", "o", "l", "i", "d", " ", "q", "u", "e", "s", "t", "i", "o", "n", ".">> >>
      [] tone = "builder" ->
        << <<"F", "a", "i", "r", " ", "f", "e", "e", "d", "b", "a", "c", "k", ",", " ">> \o a \o <<".">>,
           <<"H", "e", "l", "p", "f", "u", "l", " ", "i", "n", "p", "u", "t", ",", " ">> \o a \o <<".">> >>
      [] tone = "calm" ->
        << <<"I", " ", "h", "e", "a", "r", " ", "y", "o", "u", ",", " ">> \o a \o <<".">>,
           <<"G", "o", "t", " ", "i", "t", ",", " ">> \o a \o <<".">> >>
      [] OTHER ->
        << <<"T", "h", "x", " ">> \o a \o <<".">>,
           <<"A", "p", "p", "r", "e", "c", "i", "a", "t", "e", " ", "i", "t", ",", " ">> \o a \o <<".">> >>

humors ==
    << <<"I", " ", "p", "o", "k", "e", " ", "a", "t", " ", "i", "t", ".">>,
       <<"I", " ", "g", "o", " ", "s", "p", "e", "l", "u", "n", "k", "i", "n", "g", ".">>,
       <<"I", " ", "s", "a", "n", "i", "t", "y", "-", "c", "h", "e", "c", "k", " ", "i", "t", ".">> >>

mids(intent, topic) ==
    CASE intent = "praise" ->
        << <<"I", "t", "e", "r", "a", "t", "i", "n", "g", " ", "q", "u", "i", "c", "k", "l", "y", ".">>,
           <<"P", "o", "l", "i", "s", "h", "i", "n", "g", " ", "e", "d", "g", "e", "s", ".">> >>
      [] intent = "question" ->
        << <<"O", "n", " ", "~">> \o topic \o <<"~", ":", " ", "I", " ", "c", "h", "e", "c", "k", " ", "t", "h", "e", " ", "r", "e", "p", "o", ".">>,
           <<"R", "e", " ", "~">> \o topic \o <<"~", ":", " ", "I", " ", "c", "h", "e", "c", "k", " ", "C", "a", "t", "G", "a", "m", "e", ".">> >>
      [] intent = "bug" ->
        << <<"S", "h", "a", "r", "e", " ", "r", "e", "p", "r", "o", " ", "s", "t", "e", "p", "s", " ", "a", "r", "o", "u", "n", "d", " ", "~">> \o topic \o <<"~", ".">>,
           <<"S", "h", "a", "r", "e", " ", "e", "x", "a", "c", "t", " ", "s", "t", "e", "p", "s", ".">> >>
      [] intent = "feedback" ->
        << <<"I", " ", "s", "e", "e", " ", "w", "h", "y", " ", "~">> \o topic \o <<"~", " ", "f", "e", "e", "l", "s", " ", "r", "o", "u", "g", "h", ".">>,
           <<"R", "e", "a", "s", "o", "n", "a", "b", "l", "e", " ", "a", "s", "k", ".">> >>
      [] intent = "hostile" ->
        << <<"S", "p", "e", "c", "i", "f", "i", "c", " ", "f", "e", "e", "d", "b", "a", "c", "k", " ", "i", "s", " ", "w", "e", "l", "c", "o", "m", "e", ".">>,
           <<"M", "a", "k", "e", " ", "i", "t", " ", "c", "o", "n", "c", "r", "e", "t", "e", ".">> >>
      [] OTHER ->
        << <<"I", "f", " ", "y", "o", "u", " ", "m", "e", "a", "n", "t", " ", "~">> \o topic \o <<"~", ",", " ", "t", "e", "l", "l", " ", "m", "e", ".">>,
           <<"S", "p", "e", "c", "i", "f", "i", "c", " ", "e", "d", "g", "e", " ", "c", "a", "s", "e", ".">> >>

\* Variant: no intent has a closing question.
asks_none(intent, topic) == <<>>

asks(intent, topic) ==
    CASE intent = "praise" ->
        << <<"A", " ", "f", "e", "a", "t", "u", "r", "e", " ", "y", "o", "u", " ", "w", "a", "n", "t", " ", "a", "r", "o", "u", "n", "d", " ", "~">> \o topic \o <<"~", ".">>,
           <<"W", "i", "s", "h", "l", "i", "s", "t", " ", "i", "t", "e", "m", ".">> >>
      [] intent = "question" ->
        << <<"W", "h", "a", "t", " ", "i", "s", " ", "t", "h", "e", " ", "e", "n", "d", " ", "g", "o", "a", "l", ".">>,
           <<"W", "h", "a", "t", " ", "p", "l", "a", "t", "f", "o", "r", "m", ".">> >>
      [] intent = "bug" ->
        << <<"W", "h", "a", "t", " ", "w", "e", "r", "e", " ", "y", "o", "u", " ", "d", "o", "i", "n", "g", ".">>,
           <<"A", "n", "y", " ", "e", "r", "r", "o", "r", " ", "t", "e", "x", "t", ".">> >>
      [] intent = "feedback" ->
        << <<"T", "e", "l", "l", " ", "m", "e", " ", "w", "h", "a", "t", " ", "l", "o", "o", "k", "s", " ", "r", "i", "g", "h", "t", ".">>,
           <<"D", "e", "s", "c", "r", "i", "b", "e", " ", "y", "o", "u", "r", " ", "U", "X", ".">> >>
      [] OTHER ->
        << <<"W", "h", "a", "t", " ", "w", "e", "r", "e", " ", "y", "o", "u", " ", "c", "u", "r", "i", "o", "u", "s", " ", "a", "b", "o", "u", "t", ".">>,
           <<"W", "h", "a", "t", " ", "p", "a", "r", "t", " ", "s", "h", "o", "u", "l", "d", " ", "I", " ", "c", "l", "a", "r", "i", "f", "y", ".">> >>

closes(project) ==
    << <<"I", " ", "k", "e", "e", "p", " ", "b", "u", "i", "l", "d", "i", "n", "g", " ">> \o project \o <<".">>,
       <<"I", " ", "k", "e", "e", "p", " ", "i", "t", "e", "r", "a", "t", "i", "n", "g", ".">> >>

\* max_words of the call in generate_reply_text
KeywordsMax == 8

\* max_hits of search_project_dir
MaxHits == 8

\* The lines of file f that contain every term, as <<rel, line number>>.
line_hits(f, terms) ==
    LET idx == [i \in 1..Len(f.lines) |-> <<f.rel, i>>]
    IN  SelectSeq(idx, LAMBDA x :
            \A k \in 1..Len(terms) : contains(lower(f.lines[x[2]]), terms[k]))

RECURSIVE all_hits(_, _)
all_hits(files, terms) ==
    IF files = <<>> THEN <<>>
    ELSE line_hits(Head(files), terms) \o all_hits(Tail(files), terms)

\* The files search_project_dir scans: the candidate files, then the files
\* in the order walk in which rglob yields them, without duplicates.
scanned_files(project_dir, walk) ==
    project_dir.candidates
        \o SelectSeq(walk, LAMBDA f :
               \A k \in 1..Len(project_dir.candidates) :
                  project_dir.candidates[k] # f)

\* search_project_dir: the hits, at most MaxHits of them.
search_project_dir(project_dir, query_terms, walk) ==
    IF project_dir = None THEN <<>>
    ELSE LET terms == [k \in 1..Len(query_terms) |-> lower(query_terms[k])]
             hits == all_hits(scanned_files(project_dir, walk), terms)
         IN  IF terms = <<>> THEN <<>>
             ELSE SubSeq(hits, 1, IF Len(hits) < MaxHits THEN Len(hits)
                                  ELSE MaxHits)

\* The first hit of each file, in the order of the hits.
RECURSIVE first_per_file(_, _)
first_per_file(hits, files) ==
    IF hits = <<>> THEN files
    ELSE IF \E k \in 1..Len(files) : files[k][1] = Head(hits)[1]
         THEN first_per_file(Tail(hits), files)
         ELSE first_per_file(Tail(hits), Append(files, Head(hits)))

\* str(ln) for a line number below 10
DigitSeq == <<"1", "2", "3", "4", "5", "6", "7", "8", "9">>

\* _reference_hint; the literal is abbreviated.
reference_hint(intent, project_dir, keywords, walk) ==
    IF intent \notin {"question", "bug", "feedback"} \/ keywords = <<>>
    THEN <<>>
    ELSE LET hits == search_project_dir(
                         project_dir,
                         SubSeq(keywords, 1, IF Len(keywords) < 2
                                             THEN Len(keywords) ELSE 2),
                         walk)
             files == first_per_file(hits, <<>>)
             at(k) == <<"~">> \o files[k][1] \o <<"~", " ", "l", "i", "n", "e", " ",
                                                   DigitSeq[files[k][2]]>>
         IN  IF files = <<>> THEN <<>>
             ELSE IF Len(files) = 1
             THEN <<"(", "S", "e", "e", " ">> \o at(1) \o <<".", ")">>
             ELSE <<"(", "S", "e", "e", " ">> \o at(1)
                      \o <<" ", "a", "n", "d", " ">> \o at(2) \o <<".", ")">>

\* generate_reply_text; walk is the order in which rglob yields the files
\* of the project directory.
generate_reply_text(ctx, persona_text, project_dir, walk) ==
    LET allow_dry_humor == persona_allows_dry_humor(persona_text)
        project == project_name(project_dir)
        intent == classify_intent(ctx.comment_text)
        tone == choose_tone(intent)
        keywords == extract_keywords(ctx.comment_text, KeywordsMax)
        seed == ctx.comment_text \o <<"\n">> \o ctx.author_name
                    \o <<"\n">> \o ctx.comment_id
        topic == IF keywords # <<>> THEN keywords[1] ELSE project
        hint == reference_hint(intent, project_dir, keywords, walk)
        humor == IF allow_dry_humor /\ hex_int(reply_hash(seed)) % 5 = 0
                 THEN stable_pick(humors, seed \o <<"/", "h", "u", "m", "o", "r">>)
                 ELSE <<>>
        opener == stable_pick(openers(tone, ctx.author_name, project), seed)
        mid == stable_pick(mids(intent, topic), seed \o <<"/", "m", "i", "d">>)
        ask == stable_pick(asks(intent, topic), seed \o <<"/", "a", "s", "k">>)
        close == stable_pick(closes(project),
                             seed \o <<"/", "c", "l", "o", "s", "e">>)
    IN  CASE intent \in {"praise", "question", "bug", "feedback"} ->
                strip(join_parts(<<opener, mid, ask, humor, hint>>))
          [] intent = "hostile" ->
                strip(opener \o <<" ">> \o mid \o <<" ">> \o close)
          [] intent = "empty" ->
                strip(opener \o <<" ">> \o ask)
          [] OTHER ->
                strip(join_parts(<<opener, mid, humor, hint>>))

\* ---------------------------------------------- the calls of the policy
\* The comment texts of the calls.
PolicyTexts ==
    { <<>>,
      <<" ", " ">>,
      <<"w", "h", "y", " ", "h", "a", "t", "e", "?">>,
      <<"n", "i", "c", "e", " ", "t", "r", "a", "s", "h">>,
      <<"B", "u", "g", " ", "1", "2", " ", "b", "u", "g", " ", "1", "2", "3", " ", "j", "u", "m", "p">>,
      <<"t", "r", "a", "s", "h">>,
      <<"s", "t", "u", "p", "i", "d", "-", "b", "u", "g", "?">>,
      <<"s", "e", "e", " ", "h", "t", "t", "p", ":", "/", "/", "x", ".", "i", "o", "/", "a", " ", "m", "a", "y", "b", "e">>,
      <<"t", "h", "i", "s", " ", "t", "h", "a", "t", " ", "4", "2">>,
      <<"m", "a", "y", "b", "e", " ", "k", "y", "s", " ", "j", "u", "m", "p">>,
      <<"H", "t", "t", "p", ":", "/", "/", "a", ".", "i", "o", " ", "b", "u", "g">> }

PolicyAuthors == {<<"b", "o", "b">>, <<"A", "m", "y">>}

PolicyCids == {<<"c", "1">>, <<"c", "2">>}

PolicyPersonas == {<<>>, <<"d", "r", "y", " ", "H", "u", "m", "o", "r">>}

FileR == [rel |-> <<"R", "E", "A", "D", "M", "E", ".", "m", "d">>, lines |-> <<<<"B", "u", "g", " ", "j", "u", "m", "p">>>>]
FileA == [rel |-> <<"a", ".", "m", "d">>, lines |-> <<<<"x">>, <<"b", "u", "g", " ", "j", "u", "m", "p">>>>]
FileB == [rel |-> <<"b", ".", "p", "y">>, lines |-> <<<<"m", "a", "y", "b", "e", " ", "j", "u", "m", "p", " ", "B", "u", "g">>>>]

\* The project directories of the calls: none, or a directory g with the
\* candidate file README.md and two more files.
PolicyDirs ==
    { None,
      [name |-> <<"g">>, candidates |-> <<FileR>>, others |-> {FileA, FileB}] }

\* The orders in which rglob can yield the files of a directory.
Walks(project_dir) ==
    IF project_dir = None THEN {<<>>}
    ELSE LET fs == project_dir.others \cup Range(project_dir.candidates)
         IN  {w \in SeqsUpTo(fs, Cardinality(fs)) :
                 Len(w) = Cardinality(fs) /\ Range(w) = fs}

\* The values of max_words of the calls of extract_keywords.
PolicyMaxWords == {-1, 0, 1, 2, KeywordsMax}

PolicyCalls ==
    [comment_text : PolicyTexts, author_name : PolicyAuthors,
     comment_id : PolicyCids, persona_text : PolicyPersonas,
     project_dir : PolicyDirs]

\* --------------------------------------------- the comments as fetched
\* The JSON values of the fields of a fetched comment: a string, a number
\* (val is what str() makes of it), null or a missing key, an object.
JStr(s) == [type |-> "str", val |-> s]
JInt(d) == [type |-> "int", val |-> d]
JNull == [type |-> "null", val |-> <<>>]
JAuthor(id, name) == [type |-> "dict", id |-> id, name |-> name]

\* bool(v) of a string, a number or None
truthy(v) ==
    \/ v.type = "str" /\ v.val # <<>>
    \/ v.type = "int" /\ v.val # <<"0">>

There == <<"t", "h", "e", "r", "e">>

\* _comment_author, and what lines 470-473 keep of the pair: the id when
\* it is a string, the name when it is truthy, None otherwise.
comment_author(c) ==
    LET a == IF c.author.type = "dict" THEN c.author
             ELSE IF c.agent.type = "dict" THEN c.agent
             ELSE JAuthor(JNull, JNull)
    IN  [id |-> IF a.id.type = "str" THEN a.id.val ELSE None,
         name |-> IF truthy(a.name) THEN a.name.val ELSE None]

\* author_name = author_name or "there"
author_name_of(c) ==
    IF comment_author(c).name = None THEN There ELSE comment_author(c).name

\* Variant: the content is taken whatever its type.
comment_content_unchecked(c) == c.content.val

\* _comment_content
comment_content(c) == IF c.content.type = "str" THEN c.content.val ELSE <<>>

\* Lines 468-505 for the comment c with id cid: the author key, the
\* context and the reply generate_reply_text composes for it, stripped.
prepare_reply(c, cid, persona_text, project_dir, walk) ==
    LET ctx == [comment_text |-> comment_content(c),
                author_name |-> author_name_of(c),
                comment_id |-> cid]
    IN  [comment |-> c,
         author_key |-> author_key(comment_author(c)),
         ctx |-> ctx,
         reply_text |-> strip(generate_reply_text(ctx, persona_text,
                                                  project_dir, walk))]

RawComment(author, agent, content) ==
    [author |-> author, agent |-> agent, content |-> content]

\* The authors of the fetched comments: ids that are strings, blank,
\* numbers or missing; names that differ in case or white space only, are
\* empty, numbers or missing.
RawAuthors ==
    { JAuthor(JStr(<<"u">>), JStr(<<"A", "b">>)),
      JAuthor(JStr(<<" ", "u", " ">>), JStr(<<"a", "b">>)),
      JAuthor(JStr(<<"U">>), JStr(<<"a", "b">>)),
      JAuthor(JNull, JStr(<<"A", "b">>)),
      JAuthor(JNull, JStr(<<"a", "b">>)),
      JAuthor(JNull, JStr(<<"a", "b", " ">>)),
      JAuthor(JStr(<<" ", " ">>), JStr(<<"A", "b">>)),
      JAuthor(JInt(<<"7">>), JStr(<<"a", "b">>)),
      JAuthor(JStr(<<"a", "b">>), JStr(<<"Q">>)),
      JAuthor(JNull, JInt(<<"7">>)),
      JAuthor(JNull, JStr(<<>>)),
      JAuthor(JNull, JNull) }

\* The contents of the fetched comments: missing, a number, strings.
RawContents ==
    { JNull, JInt(<<"7">>), JStr(<<>>),
      JStr(<<"w", "h", "y", " ", "h", "a", "t", "e", "?">>) }

\* The comments whose author keys are computed: every author, an author
\* under the key agent, an author that is no object.
KeyComments ==
    {RawComment(a, JNull, JNull) : a \in RawAuthors}
        \cup {RawComment(JNull, JAuthor(JStr(<<"u">>), JStr(<<"A", "b">>)), JNull),
              RawComment(JStr(<<"A", "b">>), JNull, JNull)}

\* The fetched comments: every author with a text; the authors without a
\* usable name with every content; an author under the key agent; an
\* author that is no object.
RawComments ==
    {RawComment(a, JNull, JStr(<<"w", "h", "y", " ", "h", "a", "t", "e", "?">>)) : a \in RawAuthors}
        \cup {RawComment(a, JNull, t) :
                 a \in {JAuthor(JNull, JNull), JAuthor(JNull, JStr(<<>>)),
                        JAuthor(JStr(<<"u">>), JStr(<<"A", "b">>))},
                 t \in RawContents}
        \cup {RawComment(JNull, JAuthor(JStr(<<"u">>), JStr(<<"A", "b">>)), JNull),
              RawComment(JStr(<<"A", "b">>), JNull, JInt(<<"7">>))}

\* ------------------------------------------------------- the API client
WriteMethods == {"POST", "PUT", "PATCH", "DELETE"}

\* The methods _request retries after a transport exception.
RetriedMethods == {"GET", "HEAD"}

\* The values of the argument method of _request.
Methods == WriteMethods \cup RetriedMethods \cup {"get", "post", "OPTIONS"}

\* method.upper()
upper_method(method) ==
    CASE method = "get" -> "GET"
      [] method = "post" -> "POST"
      [] OTHER -> method

\* self.retries = max(0, int(retries))
clamp_retries(retries) == IF retries < 0 THEN 0 ELSE retries

\* MoltbookClient(api_key, dry_run=..., retries=...)
new_client(api_key, dry_run, retries) ==
    [api_key |-> api_key, dry_run |-> dry_run,
     retries |-> clamp_retries(retries)]

\* The clients: with and without API key, dry run or not, retries from -1
\* to MaxRetries.
Clients ==
    {new_client(k, d, r) : k \in {None, <<"k">>}, d \in BOOLEAN,
                           r \in (-1)..MaxRetries}

\* No request: the value of http while no call of _request is modelled.
NoHttp ==
    [client |-> new_client(None, FALSE, 0), pc |-> "none", method |-> "",
     use_auth |-> FALSE, allow_redirects |-> FALSE, attempt |-> 0,
     log |-> <<>>, result |-> "none"]

\* Variant: redirects are followed for every request.
allow_redirects_always(use_auth) == TRUE

\* kwargs.setdefault("allow_redirects", False if use_auth else True); no
\* caller passes allow_redirects.
allow_redirects_default(use_auth) == ~use_auth

\* Variant: a dry-run client skips no method.
dry_run_skips_nothing(client, method_u) == FALSE

\* Does _request return the dry-run marker instead of sending?
dry_run_skips(client, method_u) ==
    client.dry_run /\ method_u \in WriteMethods

\* Variant: every method is retried.
can_retry_any_method(client, method_u, attempt) ==
    attempt < 1 + client.retries

\* can_retry of _request
can_retry(client, method_u, attempt) ==
    method_u \in RetriedMethods /\ attempt < 1 + client.retries

\* What one network exchange of session.request can come to: a transport
\* exception, or a response that is OK, a redirect (a redirect status with
\* a Location header) or an HTTP error.
Exchanges == {"exception", "ok", "redirect", "error"}

\* ----------------------------------------------------------- the daemon
\* 30 * 60 seconds
Cooldown == 1800

\* What proj_state.get('last_post_at') can be: missing, a string that is no
\* ISO timestamp, a timestamp without UTC offset, or a timestamp with one
\* (what _utc_now_iso writes), at seconds since the start of the clock.
Missing == [kind |-> "missing", at |-> 0]
Garbage == [kind |-> "garbage", at |-> 0]
Naive(t) == [kind |-> "naive", at |-> t]
Stamp(t) == [kind |-> "time", at |-> t]

\* No datetime: what _parse_iso_dt returns for a missing or unparseable
\* value.
NoTime == -1

\* _parse_iso_dt
parse_iso_dt(value) ==
    IF value.kind \in {"time", "naive"} THEN value.at ELSE NoTime

\* Variant: the cooldown is never in force.
cooldown_never(last_post_at, now) == FALSE

\* _maybe_post_update lines 469-477: is the post skipped for the cooldown?
cooldown_active(last_post_at, now) ==
    last_post_at # NoTime /\ now - last_post_at < Cooldown

\* run_iteration lines 368-381: does the iteration call
\* _maybe_post_update?
wants_post(d, has_changes) ==
    \/ has_changes /\ d.post_enabled
    \/ d.force_post /\ d.post_enabled /\ ~has_changes

\* No daemon: the value of daemon while no daemon process is modelled.
NoDaemon ==
    [pc |-> "none", dry_run |-> FALSE, post_enabled |-> FALSE,
     force_post |-> FALSE, once |-> FALSE, now |-> 0, iteration |-> 0,
     last_post_at |-> Missing, saved |-> Missing, calls |-> <<>>,
     recorded |-> <<>>]

\* ------------------------------------------------------------- the state
VARIABLES
    file,                  \* the state file on disk
    drafts,                \* the draft files this invocation wrote
    reply_files,           \* the reply_files entries this invocation wrote
    pc,                    \* "idle", "posts", "comments" or "save"
    inv,                   \* number of invocations started
    args,                  \* dry_run, draft_only, max_replies
    my_agent_id,
    state,                 \* the state dict in memory
    posts,                 \* the posts not yet visited
    post_id,
    pending,
    responded,
    run_hashes,
    run_hashes_by_author,
    run_hashes_global,
    replies_sent,
    would_reply_count,
    posted,                \* history: the hashes of all replies posted
    accepted_ever,         \* history: the hashes accepted by any invocation
    run_accepted,          \* history: the hashes this invocation accepted
    run_replied,           \* history: <<post, comment id>> replied to by it
    fetched,               \* history: the comment list fetched for post_id
    last,                  \* history: the uniqueness run of the last step
    call,                  \* the arguments of the calls of the reply policy
    out,                   \* what the calls of the reply policy returned
    http,                  \* the client and its call of _request
    daemon                 \* the daemon process, its clock and its posts

vars ==
    <<file, drafts, reply_files, pc, inv, args, my_agent_id, state, posts,
      post_id, pending, responded, run_hashes, run_hashes_by_author,
      run_hashes_global, replies_sent, would_reply_count, posted,
      accepted_ever, run_accepted, run_replied, fetched, last, call, out,
      http, daemon>>

\* No call of the reply policy: the value of call while main() runs.
NoCall ==
    [comment_text |-> <<>>, author_name |-> <<>>, comment_id |-> <<>>,
     persona_text |-> <<>>, project_dir |-> None]

\* Nothing returned yet: no intent, no keyword list, no reply.
NoOut ==
    [intent |-> "unset", extracted |-> FALSE, max_words |-> 0,
     keywords |-> <<>>, replies |-> <<>>, keys |-> <<>>,
     prepared |-> <<>>, tones |-> <<>>]

NoLast ==
    [status |-> "none", post |-> "none", cid |-> None, key |-> None,
     reply |-> None, text |-> None, h |-> None, tried |-> <<>>,
     outcome |-> "none"]

NoFiles == [p \in Posts |-> <<>>]

NoArgs == [dry_run |-> FALSE, draft_only |-> FALSE, max_replies |-> 0]

\* The six earlier replies T1, T1 + suffix 1..5, all sent on post p1 to
\* comments of author u that are no longer listed.
SeedHashes ==
    {reply_hash(T1)} \cup {reply_hash(T1 \o suffixes[i]) : i \in 1..Len(suffixes)}

SeedState ==
    [EmptyState EXCEPT !.post_hashes = [p \in Posts |->
                                          IF p = "p1" THEN SeedHashes ELSE {}],
                       !.hashes = SeedHashes,
                       !.by_author = Put(<<>>, <<"u">>, SeedHashes)]

\* The agent object of the state file and of GET /agents/me: missing, or
\* the agent's id and name.
Agents ==
    { [id |-> None, name |-> None],
      [id |-> Me, name |-> <<"M">>] }

Init ==
    /\ \E h \in {EmptyState, SeedState}, a \in Agents :
          file = [h EXCEPT !.agent = a]
    /\ pc = "idle"
    /\ inv = 0
    /\ args = NoArgs
    /\ my_agent_id = None
    /\ state = EmptyState
    /\ posts = <<>>
    /\ post_id = "none"
    /\ pending = <<>>
    /\ responded = {}
    /\ run_hashes = {}
    /\ run_hashes_by_author = <<>>
    /\ run_hashes_global = {}
    /\ replies_sent = 0
    /\ would_reply_count = 0
    /\ drafts = NoFiles
    /\ reply_files = NoFiles
    /\ posted = file.hashes
    /\ accepted_ever = file.hashes
    /\ run_accepted = {}
    /\ run_replied = {}
    /\ fetched = <<>>
    /\ last = NoLast
    /\ call = NoCall
    /\ out = NoOut
    /\ http = NoHttp
    /\ daemon = NoDaemon

\* The locals of main() when no invocation runs.
Reset ==
    /\ args' = NoArgs
    /\ my_agent_id' = None
    /\ state' = EmptyState
    /\ posts' = <<>>
    /\ post_id' = "none"
    /\ pending' = <<>>
    /\ responded' = {}
    /\ run_hashes' = {}
    /\ run_hashes_by_author' = <<>>
    /\ run_hashes_global' = {}
    /\ replies_sent' = 0
    /\ would_reply_count' = 0
    /\ drafts' = NoFiles
    /\ reply_files' = NoFiles
    /\ run_accepted' = {}
    /\ run_replied' = {}
    /\ fetched' = <<>>

\* ----------------------------------------------------------- the actions
ArgSets ==
    [dry_run : BOOLEAN, draft_only : BOOLEAN, max_replies : (-1)..MaxCap]

\* main(), lines 235-371: load the state, resolve the agent (get_me when
\* the state has no agent name), refuse to post without an API key, choose
\* the posts (--post-id, or --all with the profile's recent posts; with
\* neither the run ends as with an empty list), set up the run's sets and
\* counters.
Start(a, api_key, ps, me) ==
    /\ pc = "idle"
    /\ UNCHANGED <<call, out, http, daemon>>
    /\ inv' = inv + 1
    /\ last' = NoLast
    /\ UNCHANGED <<posted, accepted_ever>>
    /\ LET need_auth == strip(file.agent.name) = <<>>
           auth_exit == need_auth /\ (~api_key \/ strip(me.name) = <<>>)
           will_post == ~a.dry_run /\ ~a.draft_only
           agent == IF need_auth
                    THEN [id |-> me.id, name |-> strip(me.name)]
                    ELSE [id |-> file.agent.id, name |-> strip(file.agent.name)]
       IN  IF auth_exit \/ (will_post /\ ~api_key)
           THEN /\ pc' = "idle"
                /\ file' = file
                /\ Reset
           ELSE /\ file' = IF need_auth THEN [file EXCEPT !.agent = agent]
                           ELSE file
                /\ state' = [file EXCEPT !.agent = agent]
                /\ my_agent_id' = agent.id
                /\ args' = [a EXCEPT !.max_replies =
                                IF a.max_replies < 0 THEN 0 ELSE a.max_replies]
                /\ posts' = ps
                /\ pc' = IF ps = <<>> THEN "save" ELSE "posts"
                /\ post_id' = "none"
                /\ pending' = <<>>
                /\ responded' = {}
                /\ run_hashes' = {}
                /\ run_hashes_by_author' = <<>>
                /\ run_hashes_global' = {}
                /\ replies_sent' = 0
                /\ would_reply_count' = 0
                /\ drafts' = NoFiles
                /\ reply_files' = NoFiles
                /\ run_accepted' = {}
                /\ run_replied' = {}
                /\ fetched' = <<>>

\* lines 391-402: get_post_comments raised; the post is skipped.
FetchFailed ==
    /\ pc = "posts"
    /\ UNCHANGED <<call, out, http, daemon>>
    /\ posts # <<>>
    /\ posts' = Tail(posts)
    /\ pc' = IF Tail(posts) = <<>> THEN "save" ELSE "posts"
    /\ last' = NoLast
    /\ UNCHANGED <<file, drafts, reply_files, inv, args, my_agent_id, state,
                   post_id, pending, responded, run_hashes,
                   run_hashes_by_author, run_hashes_global, replies_sent,
                   would_reply_count, posted, accepted_ever, run_accepted,
                   run_replied, fetched>>

\* lines 373-459: the comments of the next post were fetched.
BeginPost(comments) ==
    /\ pc = "posts"
    /\ UNCHANGED <<call, out, http, daemon>>
    /\ posts # <<>>
    /\ posts' = Tail(posts)
    /\ last' = NoLast
    /\ LET p == Head(posts)
           responded_state == state.responded[p]
           responded_api == infer_responded_to(comments, my_agent_id)
           resp == responded_state \cup responded_api
           pend == pending_of(comments, my_agent_id, resp)
       IN  IF pend = <<>>
           THEN /\ pc' = IF Tail(posts) = <<>> THEN "save" ELSE "posts"
                /\ UNCHANGED <<post_id, pending, responded, run_hashes,
                               fetched>>
           ELSE /\ pc' = "comments"
                /\ fetched' = comments
                /\ post_id' = p
                /\ pending' = pend
                /\ responded' = resp
                /\ run_hashes' = {}
    /\ UNCHANGED <<file, drafts, reply_files, inv, args, my_agent_id, state,
                   run_hashes_by_author, run_hashes_global, replies_sent,
                   would_reply_count, posted, accepted_ever, run_accepted,
                   run_replied>>

\* lines 462-466
cap_reached ==
    /\ args.max_replies # 0
    /\ \/ args.dry_run /\ would_reply_count >= args.max_replies
       \/ ~args.dry_run /\ replies_sent >= args.max_replies

\* Variant: only --dry-run keeps the reply from being sent.
skips_send_dry_run_only(a) == a.dry_run

\* lines 600-611: in dry-run and in draft-only mode the iteration ends
\* after the draft was written.
skips_send(a) == a.dry_run \/ a.draft_only

\* Variant: a failed write of the draft does not end the iteration.
reaches_send_unwritten(accepted, fs, a) == accepted /\ ~skips_send(a)

\* lines 567-611: create_comment is reached when the comment was not
\* skipped as exhausted, the draft was written and the mode sends.
reaches_send(accepted, fs, a) == accepted /\ fs = "ok" /\ ~skips_send(a)

FsOutcomes == {"ok", "write_error"}
NetOutcomes == {"ok", "error", "auth_then_ok", "auth_fail", "marker"}

\* The six sets main() consults for a comment of author key on post_id.
six_sets(key) ==
    [ph |-> state.post_hashes[post_id],
     rh |-> run_hashes,
     pa |-> Get(state.by_author, key),
     ra |-> Get(run_hashes_by_author, key),
     pg |-> state.hashes,
     rg |-> run_hashes_global]

\* Variant: the persisted lists are overwritten with the new hash alone.
record_sent_overwrite(st, p, cid, key, h) ==
    [st EXCEPT !.post_hashes[p] = {h},
               !.hashes = {h},
               !.by_author = Put(@, key, {h})]

\* Variant: the hash of a posted reply is not put into the global list.
record_sent_no_global(st, p, cid, key, h) ==
    [st EXCEPT !.post_hashes[p] = @ \cup {h},
               !.by_author = Put(@, key, Get(@, key) \cup {h})]

\* lines 665-679: the bookkeeping of a reply that was posted
record_sent(st, p, cid, key, h) ==
    [st EXCEPT !.post_hashes[p] = @ \cup {h},
               !.hashes = @ \cup {h},
               !.by_author = Put(@, key, Get(@, key) \cup {h})]

\* Variant: the accepted hash is not put into the run set.
register_never(hs, u) == hs

\* Variant: the hash is put into the run set before the final check.
register_always(hs, u) == hs \cup {u.h}

\* lines 567-583: a comment whose final hash still collides is skipped;
\* otherwise the hash goes into the run set hs.
register(hs, u) ==
    IF u.status = "exhausted" THEN hs ELSE hs \cup {u.h}

\* lines 468-682: one iteration of the loop over the pending comments.
\* fs is what write_text does, net what create_comment does: ok, a
\* non-authentication error, an authentication failure whose retry
\* succeeds, one whose retry fails too, or a response that carries the
\* dry_run marker (no reply was posted).  net is only looked at when the
\* draft was written.
ProcessComment(fs, net) ==
    /\ pc = "comments"
    /\ UNCHANGED <<call, out, http, daemon>>
    /\ pending # <<>>
    /\ ~cap_reached
    /\ (fs = "ok" /\ ~args.dry_run /\ ~args.draft_only) \/ net = "ok"
    /\ \E c \in {Head(pending)} :
       \E key \in {author_key(c.author)} :
       \E reply_text \in {strip(c.reply)} :
       \E u \in {ensure_unique(reply_text, c.id, six_sets(key))} :
       LET cid == c.id
           rba == IF key \in DOMAIN run_hashes_by_author
                  THEN run_hashes_by_author
                  ELSE Put(run_hashes_by_author, key, {})
           accepted == u.status # "exhausted"
           drafted == accepted /\ fs = "ok"
           posting == reaches_send(accepted, fs, args)
           sent == posting /\ net \in {"ok", "auth_then_ok"}
           abort == posting /\ net = "auth_fail"
           outcome ==
               IF ~accepted THEN "exhausted"
               ELSE IF ~drafted THEN "write_failed"
               ELSE IF args.dry_run THEN "dry_run"
               ELSE IF args.draft_only THEN "draft_only"
               ELSE IF net = "error" THEN "send_failed"
               ELSE IF net = "auth_fail" THEN "auth_abort"
               ELSE IF net = "marker" THEN "marker"
               ELSE "sent"
       IN  /\ last' = [status |-> u.status, post |-> post_id, cid |-> cid,
                       key |-> key, reply |-> reply_text, text |-> u.text,
                       h |-> u.h, tried |-> u.tried, outcome |-> outcome]
           /\ accepted_ever' = IF accepted THEN accepted_ever \cup {u.h}
                               ELSE accepted_ever
           /\ posted' = IF sent THEN posted \cup {u.h} ELSE posted
           /\ pc' = IF abort THEN "exit" ELSE "comments"
           /\ pending' = Tail(pending)
           /\ run_hashes' = register(run_hashes, u)
           /\ run_hashes_global' = register(run_hashes_global, u)
           /\ run_hashes_by_author' = Put(rba, key, register(rba[key], u))
           /\ run_accepted' = IF accepted THEN run_accepted \cup {u.h}
                              ELSE run_accepted
           /\ drafts' = IF drafted
                        THEN [drafts EXCEPT ![post_id] =
                                 Put(@, cid, Append(u.text, "\n"))]
                        ELSE drafts
           /\ reply_files' = IF drafted
                             THEN [reply_files EXCEPT ![post_id] =
                                      Put(@, cid, u.h)]
                             ELSE reply_files
           /\ would_reply_count' =
                  IF drafted /\ args.dry_run THEN would_reply_count + 1
                  ELSE would_reply_count
           /\ replies_sent' = IF sent THEN replies_sent + 1 ELSE replies_sent
           /\ responded' = IF sent THEN responded \cup {cid} ELSE responded
           /\ run_replied' = IF sent THEN run_replied \cup {<<post_id, cid>>}
                             ELSE run_replied
           /\ state' = IF sent
                       THEN record_sent(state, post_id, cid, key, u.h)
                       ELSE state
    /\ UNCHANGED <<file, inv, fetched, args, my_agent_id, posts, post_id>>

\* lines 684-690: after the loop over the pending comments of a post.
EndPost ==
    /\ pc = "comments"
    /\ UNCHANGED <<call, out, http, daemon>>
    /\ pending = <<>> \/ cap_reached
    /\ state' = [state EXCEPT !.responded[post_id] = responded]
    /\ pc' = IF \/ args.max_replies # 0 /\ replies_sent >= args.max_replies
                \/ posts = <<>>
             THEN "save" ELSE "posts"
    /\ post_id' = "none"
    /\ pending' = <<>>
    /\ responded' = {}
    /\ run_hashes' = {}
    /\ fetched' = <<>>
    /\ last' = NoLast
    /\ UNCHANGED <<file, drafts, reply_files, inv, args, my_agent_id, posts,
                   run_hashes_by_author, run_hashes_global, replies_sent,
                   would_reply_count, posted, accepted_ever, run_accepted,
                   run_replied>>

\* line 653: return 1, without reaching _save_state.
Exit ==
    /\ pc = "exit"
    /\ UNCHANGED <<call, out, http, daemon>>
    /\ pc' = "idle"
    /\ Reset
    /\ last' = NoLast
    /\ UNCHANGED <<file, inv, posted, accepted_ever>>

\* lines 692-708: _save_state and return 0.
Finish ==
    /\ pc = "save"
    /\ UNCHANGED <<call, out, http, daemon>>
    /\ file' = state
    /\ pc' = "idle"
    /\ Reset
    /\ last' = NoLast
    /\ UNCHANGED <<inv, posted, accepted_ever>>

CommentLists == SeqsUpTo(Comments, MaxList)

\* The steps of a running invocation.
Run ==
    \/ FetchFailed
    \/ \E comments \in CommentLists : BeginPost(comments)
    \/ \E fs \in FsOutcomes, net \in NetOutcomes : ProcessComment(fs, net)
    \/ EndPost
    \/ Exit
    \/ Finish

\* Up to MaxInv invocations, one after the other, on one state file.
Next ==
    \/ /\ inv < MaxInv
       /\ \E a \in ArgSets, api_key \in BOOLEAN, me \in Agents,
             ps \in SeqsUpTo(Posts, MaxPosts) :
             Start(a, api_key, ps, me)
    \/ Run

Spec == Init /\ [][Next]_vars

\* One invocation over up to RunPosts posts.
NextRun ==
    \/ /\ inv = 0
       /\ \E a \in ArgSets, api_key \in BOOLEAN, me \in Agents,
             ps \in SeqsUpTo(Posts, RunPosts) :
             Start(a, api_key, ps, me)
    \/ Run

SpecRun == Init /\ [][NextRun]_vars

\* ------------------------------------------------ get_comments.py main()
\* _compute_responded_to of get_comments.py
compute_responded_to(comments, agent_id) ==
    IF agent_id = None THEN {}
    ELSE {comments[i].parent :
            i \in {j \in 1..Len(comments) :
                     /\ comments[j].author.id = agent_id
                     /\ comments[j].parent # None}}

\* Variant: the ids already recorded are dropped.
sync_responded_inferred_only(existing, responded_to) == responded_to

\* get_comments.py lines 249-257: the recorded ids, then the inferred ones
sync_responded(existing, responded_to) == existing \cup responded_to

\* One invocation of get_comments.py with --post-id p: the API key check
\* and get_me (identified: the key is set and get_me answered), the fetch
\* of the comments of p, the update of the entry of p and _save_state (not
\* with --dry-run, not when the fetch failed).  post_id, my_agent_id and
\* fetched keep the values of the locals at its end.
GetComments(identified, me, p, fetch_ok, comments, dry) ==
    /\ pc = "idle"
    /\ UNCHANGED <<call, out, http, daemon>>
    /\ IF ~identified
       THEN UNCHANGED <<file, my_agent_id, post_id, fetched>>
       ELSE /\ my_agent_id' = me.id
            /\ post_id' = p
            /\ fetched' = IF fetch_ok THEN comments ELSE <<>>
            /\ file' =
                 IF fetch_ok /\ ~dry
                 THEN [file EXCEPT
                         !.agent = [id |-> me.id, name |-> strip(me.name)],
                         !.responded[p] =
                             sync_responded(@,
                                 compute_responded_to(comments, me.id))]
                 ELSE file
    /\ last' = NoLast
    /\ UNCHANGED <<drafts, reply_files, pc, inv, args, state, posts, pending,
                   responded, run_hashes, run_hashes_by_author,
                   run_hashes_global, replies_sent, would_reply_count,
                   posted, accepted_ever, run_accepted, run_replied>>

\* One invocation of comment_post.py over up to MaxPosts posts, and
\* invocations of get_comments.py before and after it, on one state file.
NextSync ==
    \/ /\ inv = 0
       /\ \E a \in ArgSets, api_key \in BOOLEAN, me \in Agents,
             ps \in SeqsUpTo(Posts, MaxPosts) :
             Start(a, api_key, ps, me)
    \/ Run
    \/ \E identified \in BOOLEAN, me \in Agents, p \in Posts,
          fetch_ok \in BOOLEAN, dry \in BOOLEAN :
          \E comments \in IF fetch_ok THEN SeqsUpTo(Comments, MaxSync)
                           ELSE {<<>>} :
             GetComments(identified, me, p, fetch_ok, comments, dry)

SpecSync == Init /\ [][NextSync]_vars

\* --------------------------------------------- an agent without an id
\* The agent object with a name and no id: main() asks for the name
\* (lines 271-296) and takes the id as it comes (lines 266, 292).
AnonAgent == [id |-> None, name |-> <<"M">>]

\* The state file names no agent or the agent without id.
InitAnon ==
    /\ \E h \in {EmptyState, SeedState},
          a \in {[id |-> None, name |-> None], AnonAgent} :
          file = [h EXCEPT !.agent = a]
    /\ pc = "idle"
    /\ inv = 0
    /\ args = NoArgs
    /\ my_agent_id = None
    /\ state = EmptyState
    /\ posts = <<>>
    /\ post_id = "none"
    /\ pending = <<>>
    /\ responded = {}
    /\ run_hashes = {}
    /\ run_hashes_by_author = <<>>
    /\ run_hashes_global = {}
    /\ replies_sent = 0
    /\ would_reply_count = 0
    /\ drafts = NoFiles
    /\ reply_files = NoFiles
    /\ posted = file.hashes
    /\ accepted_ever = file.hashes
    /\ run_accepted = {}
    /\ run_replied = {}
    /\ fetched = <<>>
    /\ last = NoLast
    /\ call = NoCall
    /\ out = NoOut
    /\ http = NoHttp
    /\ daemon = NoDaemon

\* One invocation over up to MaxPosts posts; GET /agents/me, when asked,
\* answers with the agent without id.
NextAnon ==
    \/ /\ inv = 0
       /\ \E a \in ArgSets, api_key \in BOOLEAN,
             ps \in SeqsUpTo(Posts, MaxPosts) :
             Start(a, api_key, ps, AnonAgent)
    \/ Run

SpecAnon == InitAnon /\ [][NextAnon]_vars

\* ------------------------------------------------ the policy on its own
\* The variables of main().
main_vars ==
    <<file, drafts, reply_files, pc, inv, args, my_agent_id, state, posts,
      post_id, pending, responded, run_hashes, run_hashes_by_author,
      run_hashes_global, replies_sent, would_reply_count, posted,
      accepted_ever, run_accepted, run_replied, fetched, last>>

\* The functions of comment_reply_policy called on their own: no
\* invocation of main() runs, the arguments are drawn from PolicyCalls or
\* are all empty (NoCall), and a behaviour calls one of the functions.
InitPolicy ==
    /\ file = EmptyState
    /\ pc = "idle"
    /\ inv = 0
    /\ args = NoArgs
    /\ my_agent_id = None
    /\ state = EmptyState
    /\ posts = <<>>
    /\ post_id = "none"
    /\ pending = <<>>
    /\ responded = {}
    /\ run_hashes = {}
    /\ run_hashes_by_author = <<>>
    /\ run_hashes_global = {}
    /\ replies_sent = 0
    /\ would_reply_count = 0
    /\ drafts = NoFiles
    /\ reply_files = NoFiles
    /\ posted = {}
    /\ accepted_ever = {}
    /\ run_accepted = {}
    /\ run_replied = {}
    /\ fetched = <<>>
    /\ last = NoLast
    /\ call \in PolicyCalls \cup {NoCall}
    /\ out = NoOut
    /\ http = NoHttp
    /\ daemon = NoDaemon

\* classify_intent(call.comment_text)
ClassifyIntent ==
    /\ out = NoOut
    /\ out' = [out EXCEPT !.intent = classify_intent(call.comment_text)]
    /\ UNCHANGED <<main_vars, call, http, daemon>>

\* extract_keywords(call.comment_text, max_words=max_words)
ExtractKeywords(max_words) ==
    /\ out = NoOut
    /\ out' = [out EXCEPT
                  !.extracted = TRUE,
                  !.max_words = max_words,
                  !.keywords = extract_keywords(call.comment_text, max_words)]
    /\ UNCHANGED <<main_vars, call, http, daemon>>

\* generate_reply_text(ctx, persona_text=..., project_dir=...), while rglob
\* yields the files of the project directory in the order walk.
GenerateReply(walk) ==
    /\ out.intent = "unset"
    /\ ~out.extracted
    /\ out.keys = <<>>
    /\ out.prepared = <<>>
    /\ out.tones = <<>>
    /\ Len(out.replies) < MaxCalls
    /\ out' = [out EXCEPT !.replies = Append(@,
                  [walk |-> walk,
                   text |-> generate_reply_text(
                                [comment_text |-> call.comment_text,
                                 author_name |-> call.author_name,
                                 comment_id |-> call.comment_id],
                                call.persona_text, call.project_dir, walk)])]
    /\ UNCHANGED <<main_vars, call, http, daemon>>

\* Lines 468-475 of main() for up to MaxCalls fetched comments: their
\* author keys.  The key takes nothing from a call of the policy.
AuthorKey(c) ==
    /\ call = NoCall
    /\ out.intent = "unset"
    /\ ~out.extracted
    /\ out.replies = <<>>
    /\ out.prepared = <<>>
    /\ out.tones = <<>>
    /\ Len(out.keys) < MaxCalls
    /\ out' = [out EXCEPT !.keys = Append(@,
                  [comment |-> c, key |-> author_key(comment_author(c))])]
    /\ UNCHANGED <<main_vars, call, http, daemon>>

\* Lines 468-505 of main() for one fetched comment whose id is
\* call.comment_id, with the persona and the project directory of the call.
PrepareReply(c, walk) ==
    /\ out = NoOut
    /\ out' = [out EXCEPT !.prepared = <<prepare_reply(
                  c, call.comment_id, call.persona_text, call.project_dir,
                  walk)>>]
    /\ UNCHANGED <<main_vars, call, http, daemon>>

\* choose_tone(intent); the function takes nothing from a call of
\* generate_reply_text.
ChooseTone(intent) ==
    /\ call = NoCall
    /\ out = NoOut
    /\ out' = [out EXCEPT !.tones = <<[intent |-> intent,
                                       tone |-> choose_tone(intent)]>>]
    /\ UNCHANGED <<main_vars, call, http, daemon>>

NextPolicy ==
    \/ ClassifyIntent
    \/ \E max_words \in PolicyMaxWords : ExtractKeywords(max_words)
    \/ \E walk \in Walks(call.project_dir) : GenerateReply(walk)
    \/ \E c \in KeyComments : AuthorKey(c)
    \/ \E intent \in ToneInputs : ChooseTone(intent)
    \/ \E c \in RawComments, walk \in Walks(call.project_dir) :
          PrepareReply(c, walk)

SpecPolicy == InitPolicy /\ [][NextPolicy]_vars

\* -------------------------------------------------- the client on its own
\* A client and its calls of _request, one after the other; no invocation
\* of main() runs and no function of the policy is called.
InitClient ==
    /\ file = EmptyState
    /\ pc = "idle"
    /\ inv = 0
    /\ args = NoArgs
    /\ my_agent_id = None
    /\ state = EmptyState
    /\ posts = <<>>
    /\ post_id = "none"
    /\ pending = <<>>
    /\ responded = {}
    /\ run_hashes = {}
    /\ run_hashes_by_author = <<>>
    /\ run_hashes_global = {}
    /\ replies_sent = 0
    /\ would_reply_count = 0
    /\ drafts = NoFiles
    /\ reply_files = NoFiles
    /\ posted = {}
    /\ accepted_ever = {}
    /\ run_accepted = {}
    /\ run_replied = {}
    /\ fetched = <<>>
    /\ last = NoLast
    /\ call = NoCall
    /\ out = NoOut
    /\ \E c \in Clients : http = [NoHttp EXCEPT !.client = c, !.pc = "idle"]
    /\ daemon = NoDaemon

\* _request(method, path, use_auth=...) up to its first network exchange:
\* the API key check, the dry-run marker, the redirect setting.
Request(method, use_auth) ==
    /\ http.pc \in {"idle", "done"}
    /\ \E method_u \in {upper_method(method)} :
          http' = [http EXCEPT
             !.method = method_u,
             !.use_auth = use_auth,
             !.allow_redirects = allow_redirects_default(use_auth),
             !.attempt = 0,
             !.log = <<>>,
             !.pc = IF use_auth /\ http.client.api_key = None THEN "done"
                    ELSE IF dry_run_skips(http.client, method_u) THEN "done"
                    ELSE "sending",
             !.result = IF use_auth /\ http.client.api_key = None
                        THEN "RuntimeError: requires an API key"
                        ELSE IF dry_run_skips(http.client, method_u)
                        THEN "marker: dry_run true"
                        ELSE "none"]
    /\ UNCHANGED <<main_vars, call, out, daemon>>

\* The redirects the library followed within the current request.
hops(log) ==
    Len(SelectSeq(log, LAMBDA e : e.exchange = "redirect" /\ e.followed))

\* One network exchange of session.request and what _request makes of it:
\* a retry, a raised exception, or the returned data.  With redirects
\* allowed the library follows a redirect response within the same call.
Exchange(x) ==
    /\ http.pc = "sending"
    /\ x = "redirect" /\ http.allow_redirects => hops(http.log) < MaxHops
    /\ LET follows == x = "redirect" /\ http.allow_redirects
           first == http.log = <<>> \/ ~http.log[Len(http.log)].followed
           attempt == IF first THEN http.attempt + 1 ELSE http.attempt
           entry == [exchange |-> x, followed |-> follows,
                     allow_redirects |-> http.allow_redirects,
                     authorized |-> http.use_auth, attempt |-> attempt]
       IN  http' = [http EXCEPT
              !.attempt = attempt,
              !.log = Append(@, entry),
              !.pc = IF follows THEN "sending"
                     ELSE IF x = "exception"
                             /\ can_retry(http.client, http.method, attempt)
                     THEN "sending"
                     ELSE "done",
              !.result =
                     IF follows THEN "none"
                     ELSE IF x = "exception"
                     THEN IF can_retry(http.client, http.method, attempt)
                          THEN "none" ELSE "RequestException"
                     ELSE IF http.use_auth /\ x = "redirect"
                     THEN "RuntimeError: redirected"
                     ELSE IF x = "error" THEN "RuntimeError: API error"
                     ELSE "data"]
    /\ UNCHANGED <<main_vars, call, out, daemon>>

NextClient ==
    \/ \E method \in Methods, use_auth \in BOOLEAN : Request(method, use_auth)
    \/ \E x \in Exchanges : Exchange(x)

SpecClient == InitClient /\ [][NextClient]_vars

\* -------------------------------------------------- the daemon on its own
\* One daemon process (MoltbookDaemon.__init__ and start): its options, the
\* last_post_at of the state file it loaded, and the clock, which never
\* runs backwards.  calls lists the calls of create_post, recorded the
\* times written to last_post_at (the loaded one first).
InitDaemon ==
    /\ file = EmptyState
    /\ pc = "idle"
    /\ inv = 0
    /\ args = NoArgs
    /\ my_agent_id = None
    /\ state = EmptyState
    /\ posts = <<>>
    /\ post_id = "none"
    /\ pending = <<>>
    /\ responded = {}
    /\ run_hashes = {}
    /\ run_hashes_by_author = <<>>
    /\ run_hashes_global = {}
    /\ replies_sent = 0
    /\ would_reply_count = 0
    /\ drafts = NoFiles
    /\ reply_files = NoFiles
    /\ posted = {}
    /\ accepted_ever = {}
    /\ run_accepted = {}
    /\ run_replied = {}
    /\ fetched = <<>>
    /\ last = NoLast
    /\ call = NoCall
    /\ out = NoOut
    /\ http = NoHttp
    /\ \E dry \in BOOLEAN, post \in BOOLEAN, force \in BOOLEAN,
          once \in BOOLEAN, now \in {0, Cooldown - 1, Cooldown},
          s \in {Missing, Garbage, Naive(0), Stamp(0)} :
          daemon = [NoDaemon EXCEPT
                      !.pc = "running", !.dry_run = dry,
                      !.post_enabled = post, !.force_post = force,
                      !.once = once, !.now = now,
                      !.last_post_at = s, !.saved = s,
                      !.recorded = IF s.kind = "time" THEN <<s.at>>
                                   ELSE <<>>]

\* run_iteration: the delta of the project (has_changes), at most one call
\* of _maybe_post_update, and the save of the state (save_ok: write_text
\* did not fail).  net is what the POST of create_post comes to when it is
\* sent, took the seconds it takes.  An exception in _maybe_post_update
\* (the subtraction of a timestamp without offset, a failed create_post)
\* leaves run_iteration and ends the daemon.  An input that is not looked
\* at has one value: net and took without a call, save_ok without a save.
RunIteration(has_changes, net, took, save_ok) ==
    /\ daemon.pc = "running"
    /\ daemon.iteration < MaxIter
    /\ daemon.now + took <= MaxNow
    /\ LET d == daemon
           it == d.iteration + 1
           asked == wants_post(d, has_changes)
           last_at == parse_iso_dt(d.last_post_at)
           type_error == asked /\ d.last_post_at.kind = "naive"
           calling == asked /\ ~type_error
                         /\ ~cooldown_active(last_at, d.now)
           result == IF dry_run_skips(new_client(<<"k">>, d.dry_run, 2),
                                      "POST")
                     THEN "marker" ELSE net
           raised == type_error \/ (calling /\ result = "error")
           real == calling /\ result = "ok"
           after == IF calling THEN d.now + took ELSE d.now
           stamp == IF real THEN Stamp(after) ELSE d.last_post_at
       IN  /\ calling \/ (net = "ok" /\ took = 0)
           /\ raised => save_ok
           /\ daemon' = [d EXCEPT
                 !.iteration = it,
                 !.now = after,
                 !.calls = IF calling
                           THEN Append(@, [iteration |-> it, at |-> d.now,
                                           before |-> last_at,
                                           result |-> result])
                           ELSE @,
                 !.last_post_at = stamp,
                 !.recorded = IF real THEN Append(@, after) ELSE @,
                 !.saved = IF ~raised /\ save_ok THEN stamp ELSE @,
                 !.pc = IF raised \/ d.once THEN "stopped" ELSE "sleeping"]
    /\ UNCHANGED <<main_vars, call, out, http>>

\* time.sleep(self.interval), and whatever time passes besides
Sleep(s) ==
    /\ daemon.pc = "sleeping"
    /\ daemon.now + s <= MaxNow
    /\ daemon' = [daemon EXCEPT !.now = @ + s, !.pc = "running"]
    /\ UNCHANGED <<main_vars, call, out, http>>

NextDaemon ==
    \/ \E has_changes \in BOOLEAN, net \in {"ok", "error"}, took \in {0, 1},
          save_ok \in BOOLEAN :
          RunIteration(has_changes, net, took, save_ok)
    \/ \E s \in {0, 1, Cooldown - 1, Cooldown} : Sleep(s)

SpecDaemon == InitDaemon /\ [][NextDaemon]_vars

\* ------------------------------------------------------------ the claims
\* The six sets together, for a comment of author key on the current post.
SeenBy(key) ==
    state.post_hashes[post_id] \cup run_hashes
        \cup Get(state.by_author, key) \cup Get(run_hashes_by_author, key)
        \cup state.hashes \cup run_hashes_global

\* The parents of the comments of a list that the agent wrote.
AgentChildren(list) ==
    {list[i].parent : i \in {j \in 1..Len(list) :
                               /\ list[j].author.id = Me
                               /\ list[j].parent # None}}

\* C1: no two replies that were posted, in this or in an earlier
\* invocation on the same state file, have the same normalised hash: a step
\* that posts a reply posts one whose hash was never posted before.
C1_NoTwoPostedRepliesShareHash ==
    [][last'.outcome = "sent" => last'.h \notin posted]_vars

\* C2: a step that accepts a reply accepts a hash no earlier step of the
\* invocation accepted, and leaves it in the run's post, author and global
\* sets; every hash the invocation accepted stays in the run's global set
\* and in a run author set.
C2_AcceptedHashesRegistered ==
    [][last'.status \notin {"none", "exhausted"} =>
          /\ last'.h \notin run_accepted
          /\ last'.h \in run_hashes'
          /\ last'.h \in Get(run_hashes_by_author', last'.key)
          /\ last'.h \in run_hashes_global'
          /\ run_accepted' \subseteq run_hashes_global'
          /\ \A h \in run_accepted' :
                \E k \in DOMAIN run_hashes_by_author' :
                   h \in run_hashes_by_author'[k]]_vars

\* Two replies were accepted in one invocation, the second for a comment
\* whose composed reply has the hash of an earlier one.
C2_Witness ==
    /\ last.status \notin {"none", "exhausted"}
    /\ Cardinality(run_accepted) >= 2
    /\ reply_hash(last.reply) \in run_accepted
    /\ reply_hash(last.reply) # last.h

C4_OneReplyPerComment ==
    [][last'.outcome = "sent" => <<last'.post, last'.cid>> \notin run_replied]_vars

\* C5: the composed candidate is accepted unchanged exactly when the hash
\* of its normalised text is in none of the six sets.
C5_FirstTryIffUnseen ==
    [][last'.status # "none" =>
          LET cand == strip(Head(pending).reply)
          IN  /\ (last'.status = "unique_first_try")
                    <=> (reply_hash(cand) \notin SeenBy(last'.key))
              /\ last'.status = "unique_first_try" =>
                    /\ last'.text = cand
                    /\ last'.h = sha256_hexdigest(normalize_for_hash(cand))]_vars

\* A candidate was accepted on the first try while the run's sets held
\* two other hashes.
C5_Witness ==
    /\ last.status = "unique_first_try"
    /\ Cardinality(run_hashes_global) >= 3

\* C6: when the first candidate collides, suffix attempt k tests the
\* original candidate followed by suffix (k-1) mod 5; the attempts are made
\* in order up to the first whose hash is in none of the sets, which is
\* accepted, and up to attempt 10 when all collide.
C6_SuffixAttempts ==
    [][last'.status # "none" =>
          LET t == last'.tried
              seen == SeenBy(last'.key)
              cand == strip(Head(pending).reply)
              n == IF Len(t) - 1 < 10 THEN Len(t) - 1 ELSE 10
          IN  /\ t[1] = cand
              /\ (reply_hash(cand) \notin seen) <=> (n = 0)
              /\ \A k \in 1..n : t[k + 1] = cand \o suffixes[((k - 1) % 5) + 1]
              /\ \A k \in 1..(n - 1) : reply_hash(t[k + 1]) \in seen
              /\ (last'.status = "unique_after_suffix")
                    <=> (n >= 1 /\ reply_hash(t[n + 1]) \notin seen)
              /\ last'.status = "unique_after_suffix" =>
                    /\ Len(t) = n + 1
                    /\ last'.text = t[n + 1]
              /\ (n >= 1 /\ reply_hash(t[n + 1]) \in seen) => n = 10]_vars

\* A suffix variant was accepted at the third attempt or later.
C6_Witness ==
    /\ last.status = "unique_after_suffix"
    /\ Len(last.tried) >= 4

\* C7: the tag variant, the original candidate followed by the tag of the
\* comment id, is tested exactly when the candidate and all ten suffix
\* attempts collided, and it is accepted exactly when its hash is in none
\* of the sets.
C7_TagAfterSuffixes ==
    [][last'.status # "none" =>
          LET t == last'.tried
              seen == SeenBy(last'.key)
              tagged == strip(Head(pending).reply) \o ref_tag(Head(pending).id)
              tag_tried == Len(t) = 12
          IN  /\ Len(t) <= 12
              /\ tag_tried <=> \A k \in 1..11 :
                                  k <= Len(t) /\ reply_hash(t[k]) \in seen
              /\ tag_tried => t[12] = tagged
              /\ (last'.status = "unique_after_tag")
                    <=> (tag_tried /\ reply_hash(tagged) \notin seen)
              /\ last'.status = "unique_after_tag" => last'.text = tagged]_vars

\* A tag variant was accepted.
C7_Witness ==
    /\ last.status = "unique_after_tag"
    /\ Len(last.tried) = 12

\* C8: the step that skips a comment as exhausted adds no hash to a run
\* set or to the state, writes no draft and no reply_files entry, posts
\* nothing and adds no id to the responded ids.
C8_ExhaustedLeavesNoTrace ==
    [][last'.status = "exhausted" =>
          /\ run_hashes' = run_hashes
          /\ run_hashes_global' = run_hashes_global
          /\ \A k \in DOMAIN run_hashes_by_author' :
                run_hashes_by_author'[k] = Get(run_hashes_by_author, k)
          /\ state' = state
          /\ file' = file
          /\ drafts' = drafts
          /\ reply_files' = reply_files
          /\ posted' = posted
          /\ responded' = responded
          /\ replies_sent' = replies_sent
          /\ would_reply_count' = would_reply_count]_vars

\* A comment was skipped as exhausted.
C8_Witness ==
    /\ last.status = "exhausted"
    /\ last.outcome = "exhausted"

\* C9 as stated: at most 10 + 1 = 11 texts are hashed before a comment is
\* reported as exhausted.
C9_AtMostElevenHashes ==
    last.status = "exhausted" => Len(last.tried) <= 11

\* C9 as amended: at most 1 + 10 + 1 = 12 texts are hashed for a comment,
\* the composed candidate, ten suffix variants and the tag variant; an
\* exhausted comment had all twelve.
C9_AtMostTwelveHashes ==
    /\ Len(last.tried) <= 12
    /\ last.status = "exhausted" => Len(last.tried) = 12

\* A comment was exhausted after twelve hashes.
C9_Witness ==
    /\ last.status = "exhausted"
    /\ Len(last.tried) = 12

HashesWithin(st1, st2) ==
    /\ st1.hashes \subseteq st2.hashes
    /\ \A p \in Posts : st1.post_hashes[p] \subseteq st2.post_hashes[p]
    /\ \A k \in DOMAIN st1.by_author :
          st1.by_author[k] \subseteq Get(st2.by_author, k)

\* C11: no step takes a hash out of the state file; within an invocation
\* no step takes a hash out of the prior sets, of the run's global set or
\* of a run author set, and no step of the loop over the comments of a post
\* takes one out of the run set of the post.
C11_HashSetsOnlyGrow ==
    [][/\ HashesWithin(file, file')
       /\ (pc # "idle" /\ pc' # "idle") =>
             /\ HashesWithin(state, state')
             /\ run_hashes_global \subseteq run_hashes_global'
             /\ \A k \in DOMAIN run_hashes_by_author :
                   run_hashes_by_author[k]
                       \subseteq Get(run_hashes_by_author', k)
       /\ (pc = "comments" /\ pc' \in {"comments", "exit"}) =>
             run_hashes \subseteq run_hashes']_vars

\* Two invocations have ended and the state file holds hashes that the
\* invocations saved for a post, for an author and globally.
C11_Witness ==
    /\ inv = 2
    /\ pc = "idle"
    /\ file.hashes \cap SeedHashes = {}
    /\ Cardinality(file.hashes) >= 3
    /\ \E p \in Posts : Cardinality(file.post_hashes[p]) >= 2
    /\ \E k \in DOMAIN file.by_author : file.by_author[k] # {}

\* C12: in an invocation the number of replies posted, and in dry-run the
\* number of would-be replies, never exceeds the max_replies value of the
\* invocation, and a step that finds the cap reached touches no pending
\* comment.
C12_RepliesNeverExceedCap ==
    pc # "idle" =>
        /\ replies_sent <= args.max_replies
        /\ would_reply_count <= args.max_replies

\* C13: in dry-run and in draft-only mode no step calls create_comment,
\* posts a reply or changes a hash set of the state or of the state file,
\* and the state file does not gain the id of a comment for which the
\* invocation generated a reply.
C13_DryRunKeepsHistory ==
    [][(pc # "idle" /\ (args.dry_run \/ args.draft_only)) =>
          /\ posted' = posted
          /\ last'.outcome \notin {"sent", "send_failed", "auth_abort", "marker"}
          /\ HashesWithin(file', file) /\ HashesWithin(file, file')
          /\ pc' # "idle" => HashesWithin(state', state)
          /\ \A p \in Posts :
                \A cid \in DOMAIN reply_files[p] \cup DOMAIN drafts[p] :
                   cid \in file'.responded[p] => cid \in file.responded[p]]_vars

\* A dry-run or draft-only invocation is about to save its state: it wrote
\* a draft for a comment of a post and learned from the fetched list of
\* another comment of the post that the agent had replied to.
C13_Witness ==
    /\ pc = "save"
    /\ args.dry_run \/ args.draft_only
    /\ \E p \in Posts :
          /\ DOMAIN reply_files[p] # {}
          /\ state.responded[p] # file.responded[p]

\* The draft file of the comment of step l holds its reply text.
DraftHolds(l, d) ==
    /\ l.cid \in DOMAIN d[l.post]
    /\ d[l.post][l.cid] = Append(l.text, "\n")

C15_PostedRepliesSaved ==
    [][(pc # "idle" /\ pc' = "idle") =>
          /\ posted \subseteq file'.hashes
          /\ HashesWithin(state, file')
          /\ \A r \in run_replied : r[2] \in file'.responded[r[1]]]_vars

\* The rules of classify_intent in their order of priority.
RuleOrder ==
    <<"empty", "question", "bug", "praise", "hostile", "feedback", "neutral">>

\* Does the rule of this intent match the text, whatever its case?
rule_matches(intent, text) ==
    LET t == lower(text)
    IN  CASE intent = "empty" -> strip(t) = <<>>
          [] intent = "question" -> any_in(t, question_markers)
          [] intent = "bug" -> any_in(t, bug_markers)
          [] intent = "praise" -> any_in(t, praise_markers)
          [] intent = "hostile" -> any_in(t, hostile_markers)
          [] intent = "feedback" -> any_in(t, feedback_markers)
          [] OTHER -> TRUE

\* C16: classify_intent returns the intent of the first rule, in the order
\* empty, question, bug, praise, hostile, feedback, neutral, that matches the
\* text case-insensitively: no earlier rule matches the text it returned an
\* intent for, and the rule of that intent does.
C16_FirstMatchingRuleWins ==
    out.intent # "unset" =>
        \E i \in 1..Len(RuleOrder) :
            /\ out.intent = RuleOrder[i]
            /\ rule_matches(RuleOrder[i], call.comment_text)
            /\ \A j \in 1..(i - 1) :
                  ~rule_matches(RuleOrder[j], call.comment_text)

\* A text with a praise word and a hostility word was classified as praise.
C16_Witness ==
    /\ out.intent = "praise"
    /\ rule_matches("hostile", call.comment_text)

\* C17: for every text and every max_words that is not negative, the list
\* extract_keywords returns has at most max_words elements.
C17_AtMostMaxWords ==
    (out.extracted /\ out.max_words >= 0) =>
        Len(out.keywords) <= out.max_words

\* The position at which the word w is first seen in the list ws.
first_seen(ws, w) ==
    CHOOSE i \in 1..Len(ws) : ws[i] = w /\ \A j \in 1..(i - 1) : ws[j] # w

\* C18: the keywords extract_keywords returns are lowercase tokens of the
\* text, pairwise distinct, in the order in which the text first shows
\* them, and none is a banned word, a stoplist word or all digits.
C18_KeywordsCleanDistinctOrdered ==
    out.extracted =>
        LET ks == out.keywords
            ws == words_of(call.comment_text)
        IN  /\ \A i \in 1..Len(ks) :
                  /\ lower(ks[i]) = ks[i]
                  /\ ks[i] \in Range(ws)
                  /\ ks[i] \notin banned
                  /\ ks[i] \notin stop
                  /\ ~isdigit(ks[i])
            /\ \A i, j \in 1..Len(ks) :
                  i < j => /\ ks[i] # ks[j]
                           /\ first_seen(ws, ks[i]) < first_seen(ws, ks[j])

\* Two keywords were returned for a text that has a banned word between
\* them.
C18_Witness ==
    /\ out.extracted
    /\ Len(out.keywords) >= 2
    /\ \E i \in 1..Len(words_of(call.comment_text)) :
          /\ words_of(call.comment_text)[i] \in banned
          /\ first_seen(words_of(call.comment_text), out.keywords[1]) < i
          /\ i < first_seen(words_of(call.comment_text), out.keywords[2])

\* The maximal runs of letters and digits of s, from position i on.
RECURSIVE alnum_runs(_, _)
alnum_runs(s, i) ==
    IF i > Len(s) THEN {}
    ELSE IF ~is_alnum(s[i]) THEN alnum_runs(s, i + 1)
    ELSE LET e == run_end(s, i, Letters \cup Digits)
         IN  {SubSeq(s, i, e)} \cup alnum_runs(s, e + 1)

\* The banned tokens and the URLs of a comment text, as written in it.
echo_barred(text) ==
    {w \in alnum_runs(text, 1) : lower(w) \in banned}
        \cup urls_from(text, 1)

\* C19: a reply composed for a comment text contains none of the banned
\* tokens and none of the URLs of that text as a substring.
C19_NoEcho ==
    \A k \in 1..Len(out.replies) :
        \A w \in echo_barred(call.comment_text) :
            ~contains(out.replies[k].text, w)

\* C20: two calls of generate_reply_text with the same comment id, author
\* name, comment text, persona text and project directory contents return
\* the same string.
C20_SameArgumentsSameReply ==
    \A i, j \in 1..Len(out.replies) :
        out.replies[i].text = out.replies[j].text

\* The replies that are an opener of the neutral tone followed by one
\* clarifying question of the empty intent.
opener_and_question(c) ==
    LET os == openers(choose_tone("empty"), c.author_name,
                      project_name(c.project_dir))
        qs == asks("empty", project_name(c.project_dir))
    IN  {os[i] \o <<" ">> \o qs[j] : i \in 1..Len(os), j \in 1..Len(qs)}

\* C21 as stated: no reply is empty, and the reply to a comment classified
\* empty is one of the clarifying questions and nothing more.
C21_EmptyGetsQuestionOnly ==
    \A k \in 1..Len(out.replies) :
        /\ out.replies[k].text # <<>>
        /\ classify_intent(call.comment_text) = "empty" =>
              \E j \in 1..Len(asks("empty", <<>>)) :
                  out.replies[k].text = asks("empty", <<>>)[j]

\* C21: no reply is empty, and the reply to a comment classified empty is
\* an opener followed by one clarifying question: no middle statement, no
\* aside, no closing and no reference hint.
C21_EmptyGetsOpenerAndQuestion ==
    \A k \in 1..Len(out.replies) :
        /\ out.replies[k].text # <<>>
        /\ classify_intent(call.comment_text) = "empty" =>
              out.replies[k].text \in opener_and_question(call)

\* A reply to a white-space comment, composed with dry humor allowed and a
\* project directory at hand.
C21_Witness ==
    /\ out.replies # <<>>
    /\ call.comment_text # <<>>
    /\ classify_intent(call.comment_text) = "empty"
    /\ persona_allows_dry_humor(call.persona_text)
    /\ call.project_dir # None

\* The seed generate_reply_text builds from a call.
seed_of(c) ==
    c.comment_text \o <<"\n">> \o c.author_name \o <<"\n">> \o c.comment_id

\* Is the persona flag set: does the persona text say "dry humor"?
dry_humor_flag(c) ==
    contains(lower(c.persona_text),
             <<"d", "r", "y", " ", "h", "u", "m", "o", "r">>)

\* Does the text contain one of the asides?
has_aside(text) == \E h \in 1..Len(humors) : contains(text, humors[h])

\* C22: a reply contains a dry-humor aside only if the persona flag is set
\* and the hash of the seed is 0 modulo 5, and never for a comment
\* classified hostile or empty.
C22_AsideOnlyWhenAllowed ==
    \A k \in 1..Len(out.replies) :
        has_aside(out.replies[k].text) =>
            /\ dry_humor_flag(call)
            /\ hex_int(reply_hash(seed_of(call))) % 5 = 0
            /\ classify_intent(call.comment_text) \notin {"hostile", "empty"}

\* A reply with an aside.
C22_Witness ==
    \E k \in 1..Len(out.replies) : has_aside(out.replies[k].text)

\* Does the fetched comment lack an author name: the object its author is
\* read from has none, or there is no such object?
name_missing(c) ==
    \/ c.author.type = "dict" /\ c.author.name.type = "null"
    \/ /\ c.author.type # "dict"
       /\ c.agent.type # "dict" \/ c.agent.name.type = "null"

\* C23: a comment without author name is addressed as "there", a comment
\* whose content is missing or not a string is given the empty text and
\* the intent empty, and in both cases the reply is not empty.
C23_MissingFieldsStillAnswered ==
    \A k \in 1..Len(out.prepared) :
        LET r == out.prepared[k]
        IN  /\ name_missing(r.comment) =>
                  /\ r.ctx.author_name = There
                  /\ contains(r.reply_text, There)
            /\ r.comment.content.type # "str" =>
                  /\ r.ctx.comment_text = <<>>
                  /\ classify_intent(r.ctx.comment_text) = "empty"
                  /\ r.reply_text \in
                        opener_and_question(
                            [author_name |-> r.ctx.author_name,
                             project_dir |-> call.project_dir])
            /\ r.reply_text # <<>>

\* A reply was prepared for a comment that has neither an author name nor
\* a string as content.
C23_Witness ==
    \E k \in 1..Len(out.prepared) :
        /\ name_missing(out.prepared[k].comment)
        /\ out.prepared[k].comment.content.type = "int"

\* The author object a fetched comment is read from.
raw_author(c) ==
    IF c.author.type = "dict" THEN c.author
    ELSE IF c.agent.type = "dict" THEN c.agent
    ELSE JAuthor(JNull, JNull)

\* The display name of the author of a fetched comment, "there" standing
\* for a name that is missing or empty.
display_name(c) ==
    IF truthy(raw_author(c).name) THEN raw_author(c).name.val ELSE There

\* C24: the author key of a comment is the author's id, stripped, when the
\* id is a string that is not blank, and the display name, stripped and
\* lowercased, otherwise; two comments of authors without id whose display
\* names are equal up to case have the same key.
C24_AuthorKeyIdElseName ==
    /\ \A k \in 1..Len(out.keys) :
          LET c == out.keys[k].comment
              id == raw_author(c).id
          IN  out.keys[k].key =
                 IF id.type = "str" /\ strip(id.val) # <<>>
                 THEN strip(id.val)
                 ELSE lower(strip(display_name(c)))
    /\ \A i, j \in 1..Len(out.keys) :
          LET a == raw_author(out.keys[i].comment)
              b == raw_author(out.keys[j].comment)
          IN  (/\ a.id.type = "null"
               /\ b.id.type = "null"
               /\ lower(display_name(out.keys[i].comment))
                     = lower(display_name(out.keys[j].comment)))
              => out.keys[i].key = out.keys[j].key

\* The keys of two comments whose authors have no id and the names Ab and
\* ab were computed.
C24_Witness ==
    /\ Len(out.keys) = 2
    /\ raw_author(out.keys[1].comment).id.type = "null"
    /\ raw_author(out.keys[2].comment).id.type = "null"
    /\ raw_author(out.keys[1].comment).name = JStr(<<"A", "b">>)
    /\ raw_author(out.keys[2].comment).name = JStr(<<"a", "b">>)
    /\ out.keys[1].key = out.keys[2].key

\* C25: the final text of an accepted reply is the composed candidate, or
\* the candidate followed by the suffix of the attempt that was accepted,
\* or the candidate followed by the tag of the comment id; a suffix and the
\* tag are never both appended, and what is appended is one of the fixed
\* suffixes or the tag computed from the comment id.
C25_FinalTextShape ==
    LET n == Len(last.tried) - 1
    IN  /\ last.status = "unique_first_try" => last.text = last.reply
        /\ last.status = "unique_after_suffix" =>
              /\ n \in 1..MaxAttempts
              /\ last.text =
                    last.reply \o suffixes[((n - 1) % Len(suffixes)) + 1]
        /\ last.status = "unique_after_tag" =>
              last.text = last.reply \o ref_tag(last.cid)
        /\ last.status \notin {"none", "exhausted"} =>
              \A i \in 1..Len(suffixes) :
                  last.text # last.reply \o suffixes[i] \o ref_tag(last.cid)

\* A reply was accepted with the tag of its comment id appended to the
\* candidate, after all suffix variants collided.
C25_Witness ==
    /\ last.status = "unique_after_tag"
    /\ last.text = last.reply \o ref_tag(last.cid)
    /\ \E i \in 1..Len(suffixes) :
          \E k \in 1..Len(last.tried) :
              last.tried[k] = last.reply \o suffixes[i]

\* The tone labels.
Tones == {"helpful", "calm", "warm", "builder", "neutral"}

\* C26: choose_tone returns calm for hostile, helpful for bug and for
\* question, warm for praise, builder for feedback and neutral for empty,
\* for neutral and for every other intent; the result is a tone label.
C26_ToneOfIntent ==
    \A k \in 1..Len(out.tones) :
        LET i == out.tones[k].intent
            t == out.tones[k].tone
        IN  /\ t \in Tones
            /\ i = "hostile" => t = "calm"
            /\ i \in {"bug", "question"} => t = "helpful"
            /\ i = "praise" => t = "warm"
            /\ i = "feedback" => t = "builder"
            /\ i \notin {"hostile", "bug", "question", "praise", "feedback"}
                  => t = "neutral"

\* The tone of an intent that classify_intent never returns was computed.
C26_Witness ==
    \E k \in 1..Len(out.tones) :
        /\ out.tones[k].intent = "angry"
        /\ out.tones[k].tone = "neutral"

\* The network exchanges of the log that _request itself started: every
\* exchange but those the library made to follow a redirect.
sends(log) ==
    Cardinality({i \in 1..Len(log) : i = 1 \/ ~log[i - 1].followed})

\* C27: within one call of _request a GET or HEAD is sent at most
\* 1 + retries times and any other method at most once, and nothing is
\* sent after a response has arrived (an HTTP error response included):
\* only a transport exception is ever followed by another attempt.
C27_BoundedAttempts ==
    /\ http.method \in RetriedMethods
          => sends(http.log) <= 1 + http.client.retries
    /\ http.method \notin RetriedMethods => sends(http.log) <= 1
    /\ \A i \in 1..(Len(http.log) - 1) :
          http.log[i].exchange = "exception" \/ http.log[i].followed

\* A GET of a client with two retries has failed three times and raised.
C27_Witness ==
    /\ http.pc = "done"
    /\ http.method = "GET"
    /\ http.client.retries = 2
    /\ sends(http.log) = 3
    /\ http.result = "RequestException"

\* Has the current call of _request of a dry-run client been made with a
\* write method?
dry_run_write ==
    /\ http.client.dry_run
    /\ http.pc # "idle"
    /\ http.method \in WriteMethods

\* A dry-run client still sends every other method: such a call never
\* returns the marker, and it ends without a network exchange only when
\* it is refused for the missing API key.
reads_still_sent ==
    http.client.dry_run /\ http.pc = "done" /\ http.method \notin WriteMethods
       => /\ http.result # "marker: dry_run true"
          /\ http.log = <<>>
                => http.result = "RuntimeError: requires an API key"

\* C28 as stated: a dry-run client sends no POST, PUT, PATCH or DELETE and
\* each such call returns the marker with dry_run true, while other
\* requests are still sent.
C28_DryRunWritesReturnMarker ==
    /\ dry_run_write
          => /\ http.log = <<>>
             /\ http.pc = "done"
             /\ http.result = "marker: dry_run true"
    /\ reads_still_sent

\* C28: a dry-run client sends no POST, PUT, PATCH or DELETE over the
\* network: each such call returns the marker with dry_run true, or, when
\* it is authenticated and the client has no API key, raises RuntimeError
\* for the missing key; other requests are still sent.
C28_DryRunWritesNeverSent ==
    /\ dry_run_write
          => /\ http.log = <<>>
             /\ http.pc = "done"
             /\ IF http.use_auth /\ http.client.api_key = None
                THEN http.result = "RuntimeError: requires an API key"
                ELSE http.result = "marker: dry_run true"
    /\ reads_still_sent

\* A dry-run client with an API key has been asked for a DELETE and has
\* returned the marker, nothing sent.
C28_Witness ==
    /\ dry_run_write
    /\ http.client.api_key # None
    /\ http.method = "DELETE"
    /\ http.use_auth
    /\ http.result = "marker: dry_run true"
    /\ http.log = <<>>

\* C29: an authenticated call of _request makes every network exchange
\* with redirects disabled and follows none; it returns data only from a
\* response that is OK and no redirect, a redirect response raises
\* RuntimeError; and without an API key it raises before any exchange.
C29_AuthenticatedNeverRedirected ==
    http.use_auth /\ http.pc # "idle"
       => /\ \A i \in 1..Len(http.log) :
                /\ ~http.log[i].allow_redirects
                /\ ~http.log[i].followed
                /\ http.log[i].authorized
          /\ http.pc = "done" /\ http.log # <<>>
                => \E e \in {http.log[Len(http.log)]} :
                      /\ e.exchange = "redirect"
                            => http.result = "RuntimeError: redirected"
                      /\ http.result = "data" => e.exchange = "ok"
          /\ http.client.api_key = None
                => /\ http.log = <<>>
                   /\ http.pc = "done"
                   /\ http.result = "RuntimeError: requires an API key"

\* An authenticated GET of a client with an API key has been answered
\* with a redirect, after one failed attempt, and has raised.
C29_Witness ==
    /\ http.use_auth
    /\ http.client.api_key # None
    /\ http.pc = "done"
    /\ Len(http.log) = 2
    /\ http.log[2].exchange = "redirect"
    /\ http.result = "RuntimeError: redirected"

\* The distinct texts handed to reply_hash for the last comment.
texts_tested == {last.tried[k] : k \in 1..Len(last.tried)}

\* C30: suffix attempts 6 to 10 test the texts of attempts 1 to 5 again;
\* once attempts 1 to 5 have all collided the loop runs to attempt 10 and
\* the tag variant is tried, so a suffix variant is accepted only at one of
\* the first five attempts, and at most seven distinct texts (and hashes)
\* are tested for a comment.
C30_SecondCycleRepeatsFirst ==
    LET t == last.tried
    IN  /\ \A k \in 7..11 : k <= Len(t) => t[k] = t[k - 5]
        /\ Len(t) >= 7 => Len(t) = 12
        /\ last.status = "unique_after_suffix" => Len(t) - 1 \in 1..5
        /\ Cardinality(texts_tested) <= 7
        /\ Cardinality({reply_hash(x) : x \in texts_tested}) <= 7

\* All ten suffix attempts and the tag attempt were made for a comment:
\* twelve hashes of seven distinct texts, attempts 6 to 10 repeating
\* attempts 1 to 5.
C30_Witness ==
    /\ Len(last.tried) = 12
    /\ \A k \in 7..11 : last.tried[k] = last.tried[k - 5]
    /\ Cardinality(texts_tested) = 7

\* Is every hash of a per-post or per-author sent_reply_hashes list of the
\* state st also in its global list?
global_subsumes(st) ==
    /\ \A p \in Posts : st.post_hashes[p] \subseteq st.hashes
    /\ \A k \in DOMAIN st.by_author : st.by_author[k] \subseteq st.hashes

\* C31: in the state file and in the state in memory, at every point of
\* every sequence of invocations, each hash of a per-post or per-author
\* sent_reply_hashes list is also in the global sent_reply_hashes list.
C31_GlobalSubsumesPostAndAuthor ==
    /\ global_subsumes(file)
    /\ global_subsumes(state)

\* Two invocations have run and the saved state lists a hash for post p2
\* and hashes for two authors, all of them in the global list.
C31_Witness ==
    /\ inv = 2
    /\ pc = "idle"
    /\ file.post_hashes["p2"] # {}
    /\ Cardinality({k \in DOMAIN file.by_author : file.by_author[k] # {}}) = 2
    /\ global_subsumes(file)

\* C32: the step in which create_comment fails with an error that is no
\* authentication failure leaves the run in the loop over the pending
\* comments with the failed comment removed, adds no id to the responded
\* ids, changes neither the state in memory nor the state file, and leaves
\* the hash in the three run sets; the run sets keep their hashes while
\* the invocation lasts, and no comment is accepted with a hash that is
\* in the run's global set.
C32_FailedSendKeepsHashInRun ==
    [][/\ last'.outcome = "send_failed" =>
             /\ pc' = "comments"
             /\ pending' = Tail(pending)
             /\ responded' = responded
             /\ state' = state
             /\ file' = file
             /\ posted' = posted
             /\ replies_sent' = replies_sent
             /\ last'.h \in run_hashes'
             /\ last'.h \in run_hashes_global'
             /\ last'.h \in Get(run_hashes_by_author', last'.key)
       /\ pc # "idle" /\ pc' # "idle" =>
             run_hashes_global \subseteq run_hashes_global'
       /\ last'.status \notin {"none", "exhausted"} =>
             last'.h \notin run_hashes_global]_vars

\* Posting a reply has failed with an error that is no authentication
\* failure; another comment is pending, and the hash is in the run's
\* global set and in no persisted list.
C32_Witness ==
    /\ last.outcome = "send_failed"
    /\ pc = "comments"
    /\ pending # <<>>
    /\ last.h \in run_hashes_global
    /\ last.h \notin state.hashes
    /\ last.cid \notin responded

\* The ids a step adds to the responded ids of post p, in the state file
\* and in the state in memory.
added_to_file(p) == file'.responded[p] \ file.responded[p]
added_to_state(p) == state'.responded[p] \ state.responded[p]

\* C33: no step of comment_post.py or get_comments.py takes an id out of
\* the responded_to_comment_ids of a post in the state file.  An id that
\* get_comments.py adds is the parent of a fetched comment of the agent.
\* comment_post.py starts from the lists of the file, never takes an id
\* out of them, adds to the list of the current post only the ids it
\* replied to in this run and the parents of fetched comments of the
\* agent, and saves these lists.
C33_RespondedOnlyGrows ==
    [][/\ \A p \in Posts : file.responded[p] \subseteq file'.responded[p]
       /\ pc = "idle" /\ pc' = "idle" =>
             \A p \in Posts : \A id \in added_to_file(p) :
                 /\ p = post_id'
                 /\ id \in compute_responded_to(fetched', my_agent_id')
       /\ pc = "idle" /\ pc' # "idle" =>
             /\ state'.responded = file.responded
             /\ file'.responded = file.responded
       /\ pc # "idle" /\ pc' # "idle" =>
             \A p \in Posts :
                 /\ state.responded[p] \subseteq state'.responded[p]
                 /\ \A id \in added_to_state(p) :
                       /\ p = post_id
                       /\ \/ <<p, id>> \in run_replied
                          \/ id \in infer_responded_to(fetched, my_agent_id)
       /\ pc = "save" => file'.responded = state.responded
       /\ pc = "exit" => file'.responded = file.responded]_vars

\* After an invocation of comment_post.py and one of get_comments.py the
\* state file lists two responded ids for a post.
C33_Witness ==
    /\ pc = "idle"
    /\ inv = 1
    /\ fetched # <<>>
    /\ post_id \in Posts
    /\ Cardinality(file.responded[post_id]) = 2
    /\ compute_responded_to(fetched, my_agent_id) # {}

\* Is the comment one of the agent's own?  The agent's comments carry the
\* author object of the agent.
authored_by_agent(c) == c.author = AgentAuthor

\* C34: every comment a reply is composed for is a top-level comment with
\* an id and is not one of the agent's own comments.
C34_RepliesOnlyToOthersTopLevel ==
    [][last'.status # "none" =>
          /\ Head(pending).id # None
          /\ parent_id(Head(pending)) = None
          /\ ~authored_by_agent(Head(pending))]_vars

\* The calls of create_post that posted: neither failed nor skipped by a
\* dry-run client.
real_posts == SelectSeq(daemon.calls, LAMBDA c : c.result = "ok")

\* C35: a daemon process calls create_post at most once in an iteration,
\* and only when last_post_at is missing or unparseable or at least 30
\* minutes old; last_post_at is written once for each call that posted
\* and for no other (a dry-run daemon writes none), and any two recorded
\* times, the one loaded at start included, are at least 30 minutes apart.
C35_PostsRespectCooldown ==
    LET calls == daemon.calls
        recorded == daemon.recorded
    IN  /\ \A i, j \in 1..Len(calls) :
              i # j => calls[i].iteration # calls[j].iteration
        /\ \A i \in 1..Len(calls) :
              \/ calls[i].before = NoTime
              \/ calls[i].at - calls[i].before >= Cooldown
        /\ Len(recorded) \in {Len(real_posts), Len(real_posts) + 1}
        /\ real_posts # <<>> =>
              /\ daemon.last_post_at.kind = "time"
              /\ daemon.last_post_at.at = recorded[Len(recorded)]
        /\ daemon.dry_run => real_posts = <<>>
        /\ \A i, j \in 1..Len(recorded) :
              i < j => recorded[j] - recorded[i] >= Cooldown

\* A daemon has posted twice, the second time after the cooldown of the
\* first.
C35_Witness ==
    /\ Len(real_posts) = 2
    /\ Len(daemon.recorded) >= 2
    /\ daemon.last_post_at.at >= Cooldown

====
